---- MODULE Spec2Model ----
(***************************************************************************)
(* Model of PyStatParser (stats/extractor.py, stats/withdelta.py): the     *)
(* policy-driven extractors, the grouping of runs, the delta annotation    *)
(* and the pairwise delta function.                                        *)
(*                                                                         *)
(* Python values are records [t |-> <type name>, v |-> <payload>].         *)
(* A str payload is the sequence of its characters, a timedelta payload    *)
(* is its number of microseconds, a float payload is an exact rational or  *)
(* one of nan / inf / -inf (rounding of finite floats is not modelled).    *)
(***************************************************************************)
EXTENDS Integers, Sequences, FiniteSets, TLC

VARIABLES
    \* ExtractorBase instance under scan
    cls, policy, value, num_of_matches,
    lines,              \* history: the lines fed to process_line so far
    exc,                \* the exception that left process_line, "None" if none
    other_extractor,    \* value and num_of_matches of the wrapped extractor
    \* group_multiple_runs / add_deltas_to_grouped_runs
    runs, group_by_key, retval, gpc,
    input_runs,         \* history: the runs list as the caller passed it
    grouped,            \* history: retval as group_multiple_runs returned it
    \* get_delta_percent
    val1, val2, delta, dpc,
    \* compute_footer_from_grouped_runs
    groups, with_delta, sums, maxes, fpc,
    divided,            \* history: sums and maxes before the deltas are added
    input_groups,       \* history: the groups as the caller passed them
    \* TableFormatterBase / TableFilteredBase instance and its run()
    fcls, table, footer_with_delta, footer, footer_names, header,
    all_keys, col_has_delta, num_of_runs_in_group, num_of_runs_in_cell,
    column_descriptors, \* the <<column, attribute>> pairs a descriptor sets to True
    preferred_order,
    loc,                \* the Location object of run()
    output,             \* self._output of a visitor returning the hook's name
    tpc,
    \* HTMLSheetFormatter
    indent, stand_out_class_cache,
    returned,           \* what the hook called last returned
    \* StatsExtractorBase.scan_multiple_runs and scan
    files, keys_order, file_index, fh, k_index, extractors, run_list, spc,
    scan_log,           \* history: the calls scan() made on the open file
    handles,            \* history: the files opened and closed
    \* StatsExtractorBase.as_dict
    extracted_attributes, getters,
    record,             \* the keys assigned so far and retval of as_dict
    apc,
    \* SimpleConsoleFormatter
    runs_group, formatted_output, opc,
    \* HTMLSheetFormatter.run
    run_names, title,
    runs_output,        \* self._runs_output, Unassigned until run() assigns it
    run_index,          \* i of the loop over self.run_names
    page,               \* what run() returned
    ppc

evars == <<cls, policy, value, num_of_matches, lines, exc, other_extractor>>
gvars == <<runs, group_by_key, retval, gpc, input_runs, grouped>>
dvars == <<val1, val2, delta, dpc>>
fvars == <<groups, with_delta, sums, maxes, fpc, divided, input_groups>>
\* what __init__ sets, and what the class or its user configures
tinst == <<fcls, table, footer_with_delta, footer, footer_names,
           all_keys, col_has_delta, num_of_runs_in_group, num_of_runs_in_cell>>
tconf == <<column_descriptors, preferred_order>>
tvars == <<tinst, tconf, header, loc, output, tpc,
           indent, stand_out_class_cache, returned>>
\* StatsExtractorBase.scan_multiple_runs and scan
svars == <<files, keys_order, file_index, fh, k_index, extractors, scan_log,
           handles, run_list, spc>>
avars == <<extracted_attributes, getters, record, apc>>
ovars == <<runs_group, formatted_output, opc>>
pvars == <<run_names, title, runs_output, run_index, page, ppc>>
vars == <<evars, gvars, dvars, fvars, tvars, svars, avars, ovars, pvars>>

\* what the operations of one area leave alone
not_evars == <<gvars, dvars, fvars, tvars, svars, avars, ovars, pvars>>
not_gvars == <<evars, dvars, fvars, tvars, svars, avars, ovars, pvars>>
not_dvars == <<evars, gvars, fvars, tvars, svars, avars, ovars, pvars>>
not_fvars == <<evars, gvars, dvars, tvars, svars, avars, ovars, pvars>>
not_tvars == <<evars, gvars, dvars, fvars, svars, avars, ovars, pvars>>
not_svars == <<evars, gvars, dvars, fvars, tvars, avars, ovars, pvars>>
not_avars == <<evars, gvars, dvars, fvars, tvars, svars, ovars, pvars>>
not_ovars == <<evars, gvars, dvars, fvars, tvars, svars, avars, pvars>>
not_pvars == <<evars, gvars, dvars, fvars, tvars, svars, avars, ovars>>

----------------------------------------------------------------------------
(* Bounds *)

MaxLines == 3
MaxRuns == 3

----------------------------------------------------------------------------
(* Python values *)

None == [t |-> "NoneType", v |-> 0]
PyInt(n) == [t |-> "int", v |-> n]
PyStr(s) == [t |-> "str", v |-> s]
PyTimedelta(us) == [t |-> "timedelta", v |-> us]
PyFloat(f) == [t |-> "float", v |-> f]
PyList(s) == [t |-> "list", v |-> s]
PyDict(f) == [t |-> "dict", v |-> f]
PyTuple(s) == [t |-> "tuple", v |-> s]

\* withdelta.__init__: a value paired with a delta
withdelta(obj, d) == [t |-> "withdelta", v |-> [value |-> obj, delta |-> d]]

\* val_of: unwrap a withdelta, anything else is returned as it is
val_of(obj) == IF obj.t = "withdelta" THEN obj.v.value ELSE obj

----------------------------------------------------------------------------
(* Floating point numbers: exact rationals plus nan, inf, -inf *)

Abs(n) == IF n < 0 THEN -n ELSE n

RECURSIVE Gcd(_, _)
Gcd(a, b) == IF b = 0 THEN a ELSE Gcd(b, a % b)

Frac(n, d) ==
    LET g == Gcd(Abs(n), Abs(d))
        s == IF d < 0 THEN -1 ELSE 1
    IN  [k |-> "fin", n |-> (s * n) \div g, d |-> (s * d) \div g]

\* numerators of a and b over their least common denominator (the products
\* stay small)
OverLcd(a, b) ==
    LET g == Gcd(a.d, b.d)
    IN  [an |-> a.n * (b.d \div g), bn |-> b.n * (a.d \div g), d |-> (a.d \div g) * b.d]

FNaN == [k |-> "nan", n |-> 0, d |-> 1]
FInf == [k |-> "inf", n |-> 1, d |-> 1]
FNegInf == [k |-> "inf", n |-> -1, d |-> 1]
FZero == Frac(0, 1)

FSign(a) == IF a.n > 0 THEN 1 ELSE IF a.n < 0 THEN -1 ELSE 0

\* abs(a) on floats
FAbs(a) == [a EXCEPT !.n = Abs(a.n)]

\* a == b on floats: nan equals nothing, 0.0 == -0.0
FEq(a, b) == a.k # "nan" /\ b.k # "nan" /\ a = b

\* a > b on floats
FGt(a, b) ==
    IF a.k = "nan" \/ b.k = "nan" THEN FALSE
    ELSE IF a.k = "inf" THEN a.n > 0 /\ a # b
    ELSE IF b.k = "inf" THEN b.n < 0
    ELSE OverLcd(a, b).an > OverLcd(a, b).bn

\* a >= b on floats
FGe(a, b) == FGt(a, b) \/ FEq(a, b)

\* a - b on floats
FSub(a, b) ==
    IF a.k = "nan" \/ b.k = "nan" THEN FNaN
    ELSE IF a.k = "inf" /\ b.k = "inf" THEN (IF a = b THEN FNaN ELSE a)
    ELSE IF a.k = "inf" THEN a
    ELSE IF b.k = "inf" THEN (IF b.n > 0 THEN FNegInf ELSE FInf)
    ELSE Frac(OverLcd(a, b).an - OverLcd(a, b).bn, OverLcd(a, b).d)

\* a + b on floats
FAdd(a, b) ==
    IF a.k = "nan" \/ b.k = "nan" THEN FNaN
    ELSE IF a.k = "inf" /\ b.k = "inf" THEN (IF a = b THEN a ELSE FNaN)
    ELSE IF a.k = "inf" THEN a
    ELSE IF b.k = "inf" THEN b
    ELSE Frac(OverLcd(a, b).an + OverLcd(a, b).bn, OverLcd(a, b).d)

\* a / b on floats, b # 0.0 (the callers test for zero first)
FDiv(a, b) ==
    IF a.k = "nan" \/ b.k = "nan" THEN FNaN
    ELSE IF a.k = "inf" /\ b.k = "inf" THEN FNaN
    ELSE IF a.k = "inf" THEN (IF FSign(a) * FSign(b) > 0 THEN FInf ELSE FNegInf)
    ELSE IF b.k = "inf" THEN FZero
    ELSE Frac(OverLcd(a, b).an, OverLcd(a, b).bn)

----------------------------------------------------------------------------
(* StatsExtractorBase.get_delta_percent *)

\* is_valid with the sign test of integers left out
is_valid_any_int(val) ==
    CASE val.t = "timedelta" -> FGe(Frac(val.v, 1000000), FZero)
      [] val.t = "int" -> TRUE
      [] val.t = "str" -> TRUE
      [] val.t = "float" -> FEq(val.v, val.v)
      [] OTHER -> FALSE

\* the is_valid lambda chosen by the type of val1
is_valid(val) ==
    CASE val.t = "timedelta" -> FGe(Frac(val.v, 1000000), FZero)
      [] val.t = "int" -> val.v >= 0
      [] val.t = "str" -> TRUE
      [] val.t = "float" -> FEq(val.v, val.v)
      [] OTHER -> FALSE

\* the to_float lambda chosen by the type of val1
to_float(val) ==
    CASE val.t = "timedelta" -> Frac(val.v, 1000000)
      [] val.t = "int" -> Frac(val.v, 1)
      [] val.t = "str" -> FZero
      [] val.t = "float" -> val.v
      [] OTHER -> FZero

\* val1 == val2 for two values of the same type
PyEq(a, b) == IF a.t = "float" THEN FEq(a.v, b.v) ELSE a = b

\* the type test letting an int pair with a float
type_is_not_numeric(a, b) == a.t # b.t /\ {a.t, b.t} # {"int", "float"}

\* type(val1) is not type(val2)
type_is_not(a, b) == a.t # b.t

\* delta_of_valid dividing by val2 instead of val1
delta_of_valid_over_val2(a, b) ==
    IF PyEq(a, b) THEN PyFloat(FZero)
    ELSE IF FEq(FAbs(to_float(a)), FZero)
         THEN (IF FGt(to_float(b), FZero) THEN PyFloat(FInf) ELSE PyFloat(FNegInf))
         ELSE PyFloat(FDiv(FSub(to_float(b), to_float(a)), to_float(b)))

\* delta_of_valid with the zero test ahead of the equality test
delta_of_valid_zero_first(a, b) ==
    IF FEq(FAbs(to_float(a)), FZero)
    THEN (IF FGt(to_float(b), FZero) THEN PyFloat(FInf) ELSE PyFloat(FNegInf))
    ELSE IF PyEq(a, b) THEN PyFloat(FZero)
         ELSE PyFloat(FDiv(FSub(to_float(b), to_float(a)), to_float(a)))

\* delta_of_valid with the sign of the infinity taken from val1
delta_of_valid_sign_of_val1(a, b) ==
    IF PyEq(a, b) THEN PyFloat(FZero)
    ELSE IF FEq(FAbs(to_float(a)), FZero)
         THEN (IF FGt(to_float(a), FZero) THEN PyFloat(FInf) ELSE PyFloat(FNegInf))
         ELSE PyFloat(FDiv(FSub(to_float(b), to_float(a)), to_float(a)))

\* the branch taken when both values are valid
delta_of_valid(a, b) ==
    IF PyEq(a, b) THEN PyFloat(FZero)
    ELSE IF FEq(FAbs(to_float(a)), FZero)
         THEN (IF FGt(to_float(b), FZero) THEN PyFloat(FInf) ELSE PyFloat(FNegInf))
         ELSE PyFloat(FDiv(FSub(to_float(b), to_float(a)), to_float(a)))

get_delta_percent(a, b) ==
    IF a = None /\ b = None THEN None
    ELSE IF type_is_not(a, b) THEN None
    ELSE IF is_valid(a) /\ is_valid(b) THEN delta_of_valid(a, b)
    ELSE PyFloat(FNaN)

----------------------------------------------------------------------------
(* Extractors *)

POLICY_KEEP_LAST == "POLICY_KEEP_LAST"
POLICY_KEEP_FIRST == "POLICY_KEEP_FIRST"
POLICY_SUM == "POLICY_SUM"
POLICY_APPEND == "POLICY_APPEND"
Policies == {POLICY_KEEP_LAST, POLICY_KEEP_FIRST, POLICY_SUM, POLICY_APPEND}

ExtractorClasses == {"RegexExtractor", "IntConverterExtractor"}

\* The lines a scanned file may hold, as sequences of characters.
Lines == { <<"x">>, <<"=", "1">>, <<"=", "2">>, <<"=", "x">>,
           <<"=", "-", "1">>, <<"=", "1", "2">> }

\* RegexExtractor.extract_value_from_line for the regex '=(?P<result>.+)':
\* regex.match anchors at the start of the line; no match gives None.
regex_extract_value_from_line(line) ==
    IF Len(line) >= 2 /\ line[1] = "="
    THEN PyStr(SubSeq(line, 2, Len(line)))
    ELSE None

DigitChars == {"0", "1", "2", "3", "4", "5", "6", "7", "8", "9"}

DigitValue(c) ==
    CASE c = "0" -> 0 [] c = "1" -> 1 [] c = "2" -> 2 [] c = "3" -> 3
      [] c = "4" -> 4 [] c = "5" -> 5 [] c = "6" -> 6 [] c = "7" -> 7
      [] c = "8" -> 8 [] c = "9" -> 9

RECURSIVE DigitsValue(_)
DigitsValue(ds) ==
    IF ds = <<>> THEN 0
    ELSE 10 * DigitsValue(SubSeq(ds, 1, Len(ds) - 1)) + DigitValue(ds[Len(ds)])

IsDigits(ds) == ds # <<>> /\ \A i \in 1..Len(ds) : ds[i] \in DigitChars

\* IntConverterExtractor.convert_raw_value: int(raw_value), None when int()
\* raises (an optional sign followed by decimal digits parses).
int_convert_raw_value(raw_value) ==
    LET s == raw_value.v
        signed == s # <<>> /\ s[1] \in {"-", "+"}
        ds == IF signed THEN Tail(s) ELSE s
    IN  IF IsDigits(ds)
        THEN PyInt(IF signed /\ s[1] = "-" THEN -DigitsValue(ds) ELSE DigitsValue(ds))
        ELSE None

\* an exception propagating out of a call
Raise(exception) == [t |-> "exception", v |-> exception]
IsException(x) == x.t = "exception"

ConverterClasses == {"IntConverterExtractor", "FloatConverterExtractor",
                     "TimeConverterExtractor", "MemoryConverterExtractor"}

\* The lines fed to a value-converting extractor: '=' and the raw value.
ConverterLines ==
    { <<"x">>,
      <<"=", "1", "2">>, <<"=", "1", "2", "b">>, <<"=", "1", "2", "k">>,
      <<"=", "1", "2", "K", "B">>, <<"=", "1", "2", "K", "b">>,
      <<"=", "1", ".", "5", "M">>, <<"=", "2", "g">>, <<"=", "1", ".", "5">>,
      <<"=", "b">>, <<"=", "k", "b">>, <<"=", "a", "b", "c">>,
      <<"=", "1", ":", "3", "0">>,
      <<"=", "0", ".", "0", "1", ":", "0", ".", "1", ":", "1", ":", "3", "0">>,
      <<"=", "1", ":", "2", ":", "3", ":", "4", ":", "5">>,
      <<"=", "1", ":", "x">>, <<"=", "n", "a", "n">> }

UpperCase == <<"A", "B", "C", "D", "E", "F", "G", "H", "I", "J", "K", "L", "M",
               "N", "O", "P", "Q", "R", "S", "T", "U", "V", "W", "X", "Y", "Z">>
LowerCase == <<"a", "b", "c", "d", "e", "f", "g", "h", "i", "j", "k", "l", "m",
               "n", "o", "p", "q", "r", "s", "t", "u", "v", "w", "x", "y", "z">>

\* str.lower()
lower(s) ==
    [i \in DOMAIN s |->
       IF \E j \in DOMAIN UpperCase : UpperCase[j] = s[i]
       THEN LowerCase[CHOOSE j \in DOMAIN UpperCase : UpperCase[j] = s[i]]
       ELSE s[i]]

\* the index of the first occurrence of one of the characters, 0 if none
Find(s, chars) ==
    IF \E i \in DOMAIN s : s[i] \in chars
    THEN CHOOSE i \in DOMAIN s : s[i] \in chars /\ \A j \in 1..(i - 1) : s[j] \notin chars
    ELSE 0

\* str.split(sep) for a separator of one character
RECURSIVE split(_, _)
split(s, sep) ==
    LET i == Find(s, {sep})
    IN  IF i = 0 THEN <<s>>
        ELSE <<SubSeq(s, 1, i - 1)>> \o split(SubSeq(s, i + 1, Len(s)), sep)

RECURSIVE Pow10(_)
Pow10(n) == IF n = 0 THEN 1 ELSE 10 * Pow10(n - 1)

\* a * b on finite floats
FMul(a, b) ==
    LET g1 == Gcd(Abs(a.n), b.d)
        g2 == Gcd(Abs(b.n), a.d)
    IN  Frac((a.n \div g1) * (b.n \div g2), (a.d \div g2) * (b.d \div g1))

\* float(s) of a string without surrounding white space: a float, or
\* ValueError raised. An optional sign, then nan, inf, infinity in any case, or
\* digits with an optional point and an optional exponent.
float_of_str(s) ==
    LET signed == s # <<>> /\ s[1] \in {"-", "+"}
        sign == IF signed /\ s[1] = "-" THEN -1 ELSE 1
        body == IF signed THEN Tail(s) ELSE s
        epos == Find(body, {"e", "E"})
        mant == IF epos = 0 THEN body ELSE SubSeq(body, 1, epos - 1)
        expo == IF epos = 0 THEN <<>> ELSE SubSeq(body, epos + 1, Len(body))
        esigned == expo # <<>> /\ expo[1] \in {"-", "+"}
        edigits == IF esigned THEN Tail(expo) ELSE expo
        dot == Find(mant, {"."})
        ip == IF dot = 0 THEN mant ELSE SubSeq(mant, 1, dot - 1)
        fp == IF dot = 0 THEN <<>> ELSE SubSeq(mant, dot + 1, Len(mant))
        digits(x) == \A i \in DOMAIN x : x[i] \in DigitChars
        m == Frac(sign * DigitsValue(ip \o fp), Pow10(Len(fp)))
        e == DigitsValue(edigits)
    IN  IF lower(body) = <<"n", "a", "n">> THEN PyFloat(FNaN)
        ELSE IF lower(body) \in {<<"i", "n", "f">>, <<"i", "n", "f", "i", "n", "i", "t", "y">>}
        THEN PyFloat(IF sign < 0 THEN FNegInf ELSE FInf)
        ELSE IF /\ digits(ip) /\ digits(fp) /\ ip \o fp # <<>>
                /\ (epos = 0 \/ IsDigits(edigits))
        THEN PyFloat(IF esigned /\ expo[1] = "-" THEN FMul(m, Frac(1, Pow10(e)))
                     ELSE FMul(m, Frac(Pow10(e), 1)))
        ELSE Raise("ValueError")

\* FloatConverterExtractor.convert_raw_value
float_convert_raw_value(raw_value) ==
    LET f == float_of_str(raw_value.v)
    IN  IF IsException(f) THEN None ELSE f

\* int(f) of a float: truncation towards zero; nan and inf raise
int_of_float(f) ==
    IF f.k = "nan" THEN Raise("ValueError")
    ELSE IF f.k = "inf" THEN Raise("OverflowError")
    ELSE PyInt(FSign(f) * (Abs(f.n) \div f.d))

\* timedelta(days, hours, minutes, seconds) of four floats: the fields are
\* accumulated from the seconds upwards, a nan or inf field raises (the
\* fields of the model give whole microseconds)
timedelta(days, hours, minutes, seconds) ==
    LET fields == <<seconds, minutes, hours, days>>
        weights == <<1, 60, 3600, 86400>>
        bad == { i \in 1..4 : fields[i].k # "fin" }
        first == CHOOSE i \in bad : \A j \in bad : i <= j
        total == FAdd(FAdd(FMul(days, Frac(86400, 1)), FMul(hours, Frac(3600, 1))),
                      FAdd(FMul(minutes, Frac(60, 1)), seconds))
    IN  IF bad # {} THEN int_of_float(fields[first])
        ELSE PyTimedelta(int_of_float(FMul(total, Frac(1000000, 1))).v)

\* TimeConverterExtractor.convert_raw_value
time_convert_raw_value(raw_value) ==
    LET pieces == split(raw_value.v, ":")
        floats == [i \in DOMAIN pieces |-> float_of_str(pieces[i])]
        padded == [i \in 1..(4 - Len(pieces)) |-> PyFloat(FZero)] \o floats
    IN  IF Len(pieces) > 4 THEN None
        ELSE IF \E i \in DOMAIN floats : IsException(floats[i]) THEN None
        ELSE timedelta(padded[1].v, padded[2].v, padded[3].v, padded[4].v)

\* the factor of a suffix, with a binary kilo
memory_factor_binary(suffix) ==
    CASE suffix = "k" -> 1024 [] suffix = "m" -> 1000000 [] suffix = "g" -> 1000000000

\* MemoryConverterExtractor.convert_raw_value: the factor of a suffix
memory_factor(suffix) ==
    CASE suffix = "k" -> 1000 [] suffix = "m" -> 1000000 [] suffix = "g" -> 1000000000

\* MemoryConverterExtractor.convert_raw_value: raw_value[-1] of an empty
\* string raises IndexError, float() and int() raise outside any try
memory_convert_raw_value(raw_value) ==
    LET s0 == lower(raw_value.v)
        front(s) == SubSeq(s, 1, Len(s) - 1)
        s1 == IF s0[Len(s0)] = "b" THEN front(s0) ELSE s0
        scaled == s1[Len(s1)] \in {"k", "m", "g"}
        factor == IF scaled THEN memory_factor(s1[Len(s1)]) ELSE 1
        s2 == IF scaled THEN front(s1) ELSE s1
        f == float_of_str(s2)
    IN  IF s0 = <<>> \/ s1 = <<>> THEN Raise("IndexError")
        ELSE IF IsException(f) THEN f
        ELSE IF f.v.k # "fin" THEN int_of_float(f.v)
        ELSE int_of_float(FMul(f.v, Frac(factor, 1)))

\* self.convert_raw_value(raw_value), dispatched on the class of self
convert_raw_value(c, raw_value) ==
    CASE c = "IntConverterExtractor" -> int_convert_raw_value(raw_value)
      [] c = "FloatConverterExtractor" -> float_convert_raw_value(raw_value)
      [] c = "TimeConverterExtractor" -> time_convert_raw_value(raw_value)
      [] c = "MemoryConverterExtractor" -> memory_convert_raw_value(raw_value)

\* ValueConverterExtractorBase.extract_value_from_line: delegate the raw
\* extraction to the wrapped extractor, then convert.
converter_extract_value_from_line(c, line) ==
    LET candidate == regex_extract_value_from_line(line)
    IN  IF candidate # None THEN convert_raw_value(c, candidate) ELSE None

\* self.extract_value_from_line(line), dispatched on the class of self
extract_value_from_line(c, line) ==
    IF c = "RegexExtractor" THEN regex_extract_value_from_line(line)
    ELSE converter_extract_value_from_line(c, line)

\* the + operator of the value types an extractor may hold
PyAdd(a, b) ==
    CASE a.t = "int" -> PyInt(a.v + b.v)
      [] a.t = "str" -> PyStr(a.v \o b.v)
      [] a.t = "list" -> PyList(a.v \o b.v)

\* fold_value with POLICY_SUM replacing the value
fold_value_sum_replaces(p, val, candidate) ==
    IF val = None
    THEN (IF p # POLICY_APPEND THEN candidate ELSE PyList(<<candidate>>))
    ELSE CASE p = POLICY_KEEP_FIRST -> val
           [] p = POLICY_KEEP_LAST -> candidate
           [] p = POLICY_SUM -> candidate
           [] p = POLICY_APPEND -> PyAdd(val, PyList(<<candidate>>))
           [] OTHER -> val

\* process_line: the new self.value for a candidate that is not None
fold_value(p, val, candidate) ==
    IF val = None
    THEN (IF p # POLICY_APPEND THEN candidate ELSE PyList(<<candidate>>))
    ELSE CASE p = POLICY_KEEP_FIRST -> val
           [] p = POLICY_KEEP_LAST -> candidate
           [] p = POLICY_SUM -> PyAdd(val, candidate)
           [] p = POLICY_APPEND -> PyAdd(val, PyList(<<candidate>>))
           [] OTHER -> val

\* count_match counting every line
count_match_every_line(n, candidate) == n + 1

\* process_line: the new self.num_of_matches
count_match(n, candidate) == IF candidate # None THEN n + 1 ELSE n

\* ExtractorBase.__init__ of the wrapped extractor
NewExtractor == [value |-> None, num_of_matches |-> 0]

\* the wrapped extractor after its process_line(line) was called
other_extractor_processed(other, line) ==
    LET candidate == regex_extract_value_from_line(line)
    IN  IF candidate = None THEN other
        ELSE [value |-> candidate, num_of_matches |-> other.num_of_matches + 1]

\* the wrapped extractor after self._other_extractor.extract_value_from_line(line):
\* RegexExtractor.extract_value_from_line assigns nothing
other_extractor_called(other, line) == other

\* ExtractorBase.process_line(line); an exception of extract_value_from_line
\* propagates to the caller before anything is assigned
process_line(line) ==
    LET candidate == extract_value_from_line(cls, line)
    IN  /\ exc = "None"
        /\ Len(lines) < MaxLines
        /\ lines' = Append(lines, line)
        /\ other_extractor' = IF cls = "RegexExtractor" THEN other_extractor
                              ELSE other_extractor_called(other_extractor, line)
        /\ IF IsException(candidate)
           THEN /\ exc' = candidate.v
                /\ UNCHANGED <<value, num_of_matches>>
           ELSE /\ num_of_matches' = count_match(num_of_matches, candidate)
                /\ value' = IF candidate # None
                            THEN fold_value(policy, value, candidate)
                            ELSE value
                /\ exc' = exc
        /\ UNCHANGED <<cls, policy, not_evars>>

----------------------------------------------------------------------------
(* Grouping of runs and delta annotation *)

NoGroupBy == "None"         \* group_by_key = None: no key is the group-by key
RunKeys == {"id", "time"}

KeyValues(key) ==
    IF key = "id" THEN {PyStr(<<"A">>), PyStr(<<"B">>), None}
    ELSE {PyInt(10), PyInt(12)}

\* A run is None (the file was missing) or the record of one scanned file.
Records == UNION { {PyDict(f) : f \in {g \in [ks -> UNION {KeyValues(k) : k \in RunKeys}] :
                                        \A k \in ks : g[k] \in KeyValues(k)}} :
                   ks \in SUBSET RunKeys }

\* a scanner instance (a StatsExtractorBase), given by the value of the
\* extractor of each of its extracted attributes
Scanner(values) == [t |-> "StatsExtractorBase", v |-> values]
Scanners ==
    { Scanner([key \in {"id", "time"} |-> IF key = "id" THEN PyStr(<<"A">>) ELSE PyInt(10)]),
      Scanner([key \in {"time"} |-> PyInt(12)]) }

RunValues == Records \cup {None} \cup Scanners
RunLists == UNION { [1..n -> RunValues] : n \in 0..MaxRuns }

\* runs[i].as_dict() of a scanner instance: the value of the extractor of
\* each extracted attribute, by key
scanner_as_dict(run) == PyDict(run.v)

\* as_dicts leaving the scanner instances in the list
as_dicts_keeps_scanners(rs) ==
    [i \in 1..Len(rs) |-> IF rs[i] = None THEN PyDict(<<>>) ELSE rs[i]]

\* group_multiple_runs, first loop: every entry of runs becomes a dictionary
as_dicts(rs) ==
    [i \in 1..Len(rs) |->
       IF rs[i] = None THEN PyDict(<<>>)
       ELSE IF rs[i].t = "StatsExtractorBase" THEN scanner_as_dict(rs[i])
       ELSE rs[i]]

all_keys_of(rs) == UNION { DOMAIN rs[i].v : i \in 1..Len(rs) }

\* set([run[key] for run in runs if key in run])
group_by_values(key, rs) ==
    { rs[i].v[key] : i \in { j \in 1..Len(rs) : key \in DOMAIN rs[j].v } }

\* slots_of filling the slots in reverse run order
slots_of_reversed(key, rs) ==
    PyList([i \in 1..Len(rs) |->
              IF key \in DOMAIN rs[Len(rs) + 1 - i].v
              THEN rs[Len(rs) + 1 - i].v[key] ELSE None])

\* [None if key not in run else run[key] for run in runs]
slots_of(key, rs) ==
    PyList([i \in 1..Len(rs) |-> IF key \in DOMAIN rs[i].v THEN rs[i].v[key] ELSE None])

\* group_multiple_runs, second loop, when no assertion fails
grouped_runs(gbk, rs) ==
    PyDict([key \in all_keys_of(rs) |->
              IF key = gbk THEN CHOOSE x \in group_by_values(key, rs) : TRUE
              ELSE slots_of(key, rs)])

\* group_multiple_runs without its assertion
assertion_holds_always(gbk, rs) == TRUE

\* assert(len(group_by_values) == 1), reached only for key == group_by_key
assertion_holds(gbk, rs) ==
    gbk \in all_keys_of(rs) => Cardinality(group_by_values(gbk, rs)) = 1

\* StatsExtractorBase.group_multiple_runs(group_by_key, runs)
group_multiple_runs ==
    /\ gpc = "scanned"
    /\ runs' = as_dicts(runs)
    /\ IF assertion_holds(group_by_key, as_dicts(runs))
       THEN /\ retval' = grouped_runs(group_by_key, as_dicts(runs))
            /\ gpc' = "grouped"
       ELSE /\ retval' = None
            /\ gpc' = "AssertionError"
    /\ grouped' = retval'
    /\ UNCHANGED <<group_by_key, input_runs, not_gvars>>

\* annotated_list taking the previous slot as the reference
annotated_list_previous_ref(l) ==
    PyList([i \in 1..Len(l.v) |->
              IF i = 1 THEN l.v[1]
              ELSE withdelta(l.v[i], get_delta_percent(l.v[i - 1], l.v[i]))])

\* add_deltas_to_grouped_runs: the new list of one list-valued entry
annotated_list(l) ==
    LET ref_val == l.v[1]
    IN  PyList([i \in 1..Len(l.v) |->
                  IF i = 1 THEN ref_val
                  ELSE withdelta(l.v[i], get_delta_percent(ref_val, l.v[i]))])

\* add_deltas_to_grouped_runs: the body of the loop over groups
annotated_group(g) ==
    PyDict([k \in DOMAIN g.v |->
              IF g.v[k].t # "list" THEN g.v[k] ELSE annotated_list(g.v[k])])

\* groups[i][k][0] of an empty list raises IndexError
has_empty_list(g) == \E k \in DOMAIN g.v : g.v[k].t = "list" /\ g.v[k].v = <<>>

\* StatsExtractorBase.add_deltas_to_grouped_runs(retval)
add_deltas_to_grouped_runs ==
    /\ gpc = "grouped"
    /\ IF has_empty_list(retval)
       THEN gpc' = "IndexError" /\ retval' = retval
       ELSE gpc' = "with_deltas" /\ retval' = annotated_group(retval)
    /\ UNCHANGED <<runs, group_by_key, input_runs, grouped, not_gvars>>

----------------------------------------------------------------------------
(* StatsExtractorBase.compute_footer_from_grouped_runs *)

MaxGroups == 3

\* allowed_types of ExpandBinaryAction and ExpandUnaryAction
allowed_types == {"timedelta", "float", "int"}

\* lambda s, t: s + t on two values of one allowed type
leaf_sum(s, t) ==
    CASE s.t = "int" -> PyInt(s.v + t.v)
      [] s.t = "timedelta" -> PyTimedelta(s.v + t.v)
      [] s.t = "float" -> PyFloat(FAdd(s.v, t.v))

\* leaf_max keeping its first argument
leaf_max_keeps_first(s, t) == s

\* lambda s, t: max(s, t) on two values of one allowed type: max keeps its
\* first argument unless the second is greater
leaf_max(s, t) ==
    CASE s.t = "int" -> IF t.v > s.v THEN t ELSE s
      [] s.t = "timedelta" -> IF t.v > s.v THEN t ELSE s
      [] s.t = "float" -> IF FGt(t.v, s.v) THEN t ELSE s

\* self.action(l, r) of custom_sum ("sum") and custom_max ("max")
apply_action(action, l, r) ==
    IF action = "sum" THEN leaf_sum(l, r) ELSE leaf_max(l, r)

\* ExpandBinaryAction running over the longer list and keeping its tail
RECURSIVE ExpandBinaryAction_padded(_, _, _)
ExpandBinaryAction_padded(action, l0, r0) ==
    LET l == val_of(l0)
        r == val_of(r0)
    IN  IF l.t # r.t THEN None
        ELSE IF l.t = "tuple"
             THEN PyTuple(ExpandBinaryAction_padded(action, PyList(l.v), PyList(r.v)).v)
        ELSE IF l.t = "list"
             THEN LET long == IF Len(l.v) < Len(r.v) THEN r.v ELSE l.v
                      short == IF Len(l.v) < Len(r.v) THEN l.v ELSE r.v
                  IN  PyList([i \in 1..Len(long) |->
                                IF i <= Len(short)
                                THEN ExpandBinaryAction_padded(action, long[i], short[i])
                                ELSE long[i]])
        ELSE IF l.t \notin allowed_types THEN None
        ELSE apply_action(action, l, r)

\* ExpandBinaryAction skipping an operand that is None
RECURSIVE ExpandBinaryAction_skips_none(_, _, _)
ExpandBinaryAction_skips_none(action, l0, r0) ==
    LET l == val_of(l0)
        r == val_of(r0)
    IN  IF l = None THEN r
        ELSE IF r = None THEN l
        ELSE IF l.t # r.t THEN None
        ELSE IF l.t = "tuple"
             THEN PyTuple(ExpandBinaryAction_skips_none(action, PyList(l.v), PyList(r.v)).v)
        ELSE IF l.t = "list"
             THEN LET long == IF Len(l.v) < Len(r.v) THEN r.v ELSE l.v
                      short == IF Len(l.v) < Len(r.v) THEN l.v ELSE r.v
                  IN  PyList([i \in 1..Len(short) |->
                                ExpandBinaryAction_skips_none(action, long[i], short[i])])
        ELSE IF l.t \notin allowed_types THEN None
        ELSE apply_action(action, l, r)

\* ExpandBinaryAction.__call__
RECURSIVE ExpandBinaryAction(_, _, _)
ExpandBinaryAction(action, l0, r0) ==
    LET l == val_of(l0)
        r == val_of(r0)
    IN  IF l.t # r.t THEN None
        ELSE IF l.t = "tuple"
             THEN PyTuple(ExpandBinaryAction(action, PyList(l.v), PyList(r.v)).v)
        ELSE IF l.t = "list"
             THEN LET long == IF Len(l.v) < Len(r.v) THEN r.v ELSE l.v
                      short == IF Len(l.v) < Len(r.v) THEN l.v ELSE r.v
                  IN  PyList([i \in 1..Len(short) |->
                                ExpandBinaryAction(action, long[i], short[i])])
        ELSE IF l.t \notin allowed_types THEN None
        ELSE apply_action(action, l, r)

\* int(x / float(n)): the quotient truncated toward zero
TruncDiv(x, n) == IF x < 0 THEN -((-x) \div n) ELSE x \div n

\* the microseconds of timedelta(seconds=s / float(n)): the quotient
\* rounded to the nearest microsecond
RoundDiv(x, n) ==
    IF x < 0 THEN -((2 * (-x) + n) \div (2 * n)) ELSE (2 * x + n) \div (2 * n)

\* divide_value with the floor division of two integers
divide_value_floor(x, n) ==
    CASE x.t = "timedelta" -> PyTimedelta(RoundDiv(x.v, n))
      [] x.t = "int" -> PyInt(x.v \div n)
      [] x.t = "float" -> PyFloat(FDiv(x.v, Frac(n, 1)))

\* divide_value, n being len(groups)
divide_value(x, n) ==
    CASE x.t = "timedelta" -> PyTimedelta(RoundDiv(x.v, n))
      [] x.t = "int" -> PyInt(TruncDiv(x.v, n))
      [] x.t = "float" -> PyFloat(FDiv(x.v, Frac(n, 1)))

\* ExpandUnaryAction.__call__ of custom_divide
RECURSIVE ExpandUnaryAction(_, _)
ExpandUnaryAction(x0, n) ==
    LET x == val_of(x0)
    IN  IF x.t = "tuple" THEN PyTuple(ExpandUnaryAction(PyList(x.v), n).v)
        ELSE IF x.t = "list"
             THEN PyList([i \in 1..Len(x.v) |-> ExpandUnaryAction(x.v[i], n)])
        ELSE IF x.t \notin allowed_types THEN None
        ELSE divide_value(x, n)

\* the loop over groups and fields: sums (action "sum") or maxes ("max")
RECURSIVE accumulated(_, _)
accumulated(action, gs) ==
    IF gs = <<>> THEN PyDict(<<>>)
    ELSE LET acc == accumulated(action, SubSeq(gs, 1, Len(gs) - 1))
             group == gs[Len(gs)]
         IN  PyDict([field \in DOMAIN acc.v \cup DOMAIN group.v |->
                       IF field \notin DOMAIN group.v THEN acc.v[field]
                       ELSE IF field \notin DOMAIN acc.v THEN group.v[field]
                       ELSE ExpandBinaryAction(action, acc.v[field], group.v[field])])

\* for field in sums: sums[field] = custom_divide(sums[field])
divided_sums(ss, n) ==
    PyDict([field \in DOMAIN ss.v |-> ExpandUnaryAction(ss.v[field], n)])

\* footer_with_deltas giving each slot of avg its delta against max
footer_with_deltas_against_max(ss, ms) ==
    [avg |-> PyDict([k \in DOMAIN ss.v |->
                       IF ss.v[k].t # "list" THEN ss.v[k]
                       ELSE PyList([i \in 1..Len(ss.v[k].v) |->
                              IF i = 1 THEN ss.v[k].v[1]
                              ELSE withdelta(ss.v[k].v[i],
                                     get_delta_percent(val_of(ms.v[k].v[i]), ss.v[k].v[i]))])]),
     max |-> annotated_group(ms)]

\* cls.add_deltas_to_grouped_runs(sums, maxes): each of the two dictionaries
\* is annotated as a group of its own
footer_with_deltas(ss, ms) == [avg |-> annotated_group(ss), max |-> annotated_group(ms)]

\* the group whose list under k is the very list object maxes[k] is bound to
\* (maxes[field] = group[field] for the first holder, never rebound when no
\* other group holds the key); 0 when there is none
sharing_group(gs, ms, k) ==
    LET holders == { g \in 1..Len(gs) : k \in DOMAIN gs[g].v }
    IN  IF Cardinality(holders) = 1 /\ ms.v[k].t = "list"
        THEN CHOOSE g \in holders : TRUE ELSE 0

\* add_deltas_to_grouped_runs writing the wrapped items into the list it is
\* given: the list a body group shares with maxes changes with it
groups_after_deltas_in_place(gs, ms) ==
    [g \in 1..Len(gs) |->
       PyDict([k \in DOMAIN gs[g].v |->
                 IF sharing_group(gs, ms, k) = g THEN annotated_list(ms.v[k])
                 ELSE gs[g].v[k]])]

\* the body groups after cls.add_deltas_to_grouped_runs(sums, maxes):
\* groups[i][k] = [ref_val] + [...] binds the key of sums or maxes to a new
\* list and writes into no existing list, shared with a body group or not
groups_after_deltas(gs, ms) == gs

\* the entries a grouped run may hold under a key
FooterEntries ==
    { PyInt(2), PyInt(4), PyInt(6), PyInt(-7), PyStr(<<"A">>),
      PyTuple(<<PyInt(1), PyInt(2)>>),
      PyList(<<PyInt(1), PyInt(2), PyInt(3)>>),
      PyList(<<PyInt(10), PyInt(20)>>),
      PyList(<<PyInt(10), None>>),
      PyList(<<PyInt(10), withdelta(PyInt(12), PyFloat(Frac(1, 5)))>>),
      PyList(<<PyTimedelta(10000000), PyTimedelta(12000000)>>),
      PyList(<<PyFloat(Frac(1, 2))>>),
      PyList(<<PyStr(<<"A">>), PyInt(1)>>),
      PyList(<<PyTuple(<<PyInt(1), PyInt(2)>>)>>) }

\* grouped runs holding the key "x" or no key at all
FooterGroups == {PyDict([key \in {"x"} |-> e]) : e \in FooterEntries} \cup {PyDict(<<>>)}
FooterGroupLists == UNION { [1..n -> FooterGroups] : n \in 0..MaxGroups }

\* compute_footer_from_grouped_runs: the loop over groups
footer_accumulate ==
    /\ fpc = "call"
    /\ sums' = accumulated("sum", groups)
    /\ maxes' = accumulated("max", groups)
    /\ fpc' = "summed"
    /\ UNCHANGED <<groups, with_delta, divided, input_groups, not_fvars>>

\* compute_footer_from_grouped_runs: the loop dividing the sums
footer_divide ==
    /\ fpc = "summed"
    /\ sums' = divided_sums(sums, Len(groups))
    /\ fpc' = "divided"
    /\ UNCHANGED <<groups, with_delta, maxes, divided, input_groups, not_fvars>>

\* compute_footer_from_grouped_runs: the optional deltas and the return of
\* {'max': maxes, 'avg': sums}
footer_return ==
    /\ fpc = "divided"
    /\ divided' = [avg |-> sums, max |-> maxes]
    /\ IF with_delta /\ (has_empty_list(sums) \/ has_empty_list(maxes))
       THEN fpc' = "IndexError" /\ UNCHANGED <<sums, maxes, groups>>
       ELSE /\ fpc' = "returned"
            /\ sums' = IF with_delta THEN footer_with_deltas(sums, maxes).avg ELSE sums
            /\ maxes' = IF with_delta THEN footer_with_deltas(sums, maxes).max ELSE maxes
            /\ groups' = IF with_delta THEN groups_after_deltas(groups, maxes) ELSE groups
    /\ UNCHANGED <<with_delta, input_groups, not_fvars>>

----------------------------------------------------------------------------
(* SimpleConsoleFormatter._generate_formatted_output *)

HEADER == <<"\\033[95m">>
OKBLUE == <<"\\033[94m">>
OKGREEN == <<"\\033[92m">>
WARNING == <<"\\033[93m">>
FAIL == <<"\\033[91m">>
ENDC == <<"\\033[0m">>

delta_colw == 8

\* n * ' '
Spaces(n) == [i \in 1..n |-> " "]

DigitChar(d) == CHOOSE c \in DigitChars : DigitValue(c) = d

\* str(n) of a natural number
RECURSIVE str_of_nat(_)
str_of_nat(n) ==
    IF n < 10 THEN <<DigitChar(n)>>
    ELSE str_of_nat(n \div 10) \o <<DigitChar(n % 10)>>

\* the digits of r / d after the point, r < d, count of them
RECURSIVE FracDigits(_, _, _)
FracDigits(r, d, count) ==
    IF count = 0 THEN <<>>
    ELSE <<(r * 10) \div d>> \o FracDigits((r * 10) % d, d, count - 1)

\* the zeros between the point and the first digit of r / d that is not 0
RECURSIVE LeadingZeros(_, _)
LeadingZeros(r, d) ==
    IF r = 0 \/ (r * 10) \div d # 0 THEN 0 ELSE 1 + LeadingZeros((r * 10) % d, d)

\* a number given by its digits, plus one in the last place
RECURSIVE Incremented(_)
Incremented(ds) ==
    IF ds = <<>> THEN <<1>>
    ELSE IF ds[Len(ds)] < 9 THEN [ds EXCEPT ![Len(ds)] = @ + 1]
    ELSE Incremented(SubSeq(ds, 1, Len(ds) - 1)) \o <<0>>

RECURSIVE WithoutTrailingZeros(_)
WithoutTrailingZeros(ds) ==
    IF ds # <<>> /\ ds[Len(ds)] = 0 THEN WithoutTrailingZeros(SubSeq(ds, 1, Len(ds) - 1))
    ELSE ds

\* str(f) of a float: '%.12g' of it, with '.0' after a whole number (the
\* floats of the model lie between 0.0001 and 10**12 in magnitude, where
\* no exponent is written)
str_of_float(f) ==
    IF f.k = "nan" THEN <<"n", "a", "n">>
    ELSE IF f.k = "inf" THEN (IF f.n < 0 THEN <<"-">> ELSE <<>>) \o <<"i", "n", "f">>
    ELSE LET whole == [i \in DOMAIN str_of_nat(Abs(f.n) \div f.d) |->
                          DigitValue(str_of_nat(Abs(f.n) \div f.d)[i])]
             r == Abs(f.n) % f.d
             places == IF Abs(f.n) >= f.d THEN 12 - Len(whole)
                       ELSE 12 + LeadingZeros(r, f.d)
             kept == FracDigits(r, f.d, places + 1)
             all == whole \o SubSeq(kept, 1, places)
             rounded == IF kept[places + 1] >= 5 THEN Incremented(all) ELSE all
             int_part == SubSeq(rounded, 1, Len(rounded) - places)
             frac_part == WithoutTrailingZeros(SubSeq(rounded, Len(rounded) - places + 1,
                                                       Len(rounded)))
             chars(ds) == [i \in DOMAIN ds |-> DigitChar(ds[i])]
         IN  (IF f.n < 0 THEN <<"-">> ELSE <<>>) \o chars(int_part) \o <<".">>
                \o (IF frac_part = <<>> THEN <<"0">> ELSE chars(frac_part))

\* str(obj) of None, an int, a str, a float, a withdelta (its __repr__) or
\* a list of these
RECURSIVE str(_)
str(obj) ==
    CASE obj.t = "NoneType" -> <<"N", "o", "n", "e">>
      [] obj.t = "int" -> IF obj.v < 0 THEN <<"-">> \o str_of_nat(-obj.v)
                          ELSE str_of_nat(obj.v)
      [] obj.t = "str" -> obj.v
      [] obj.t = "float" -> str_of_float(obj.v)
      [] obj.t = "withdelta" ->
            <<"w", "i", "t", "h", "d", "e", "l", "t", "a", "(">> \o str(obj.v.value)
               \o <<",", " ">> \o str(obj.v.delta) \o <<")">>
      [] obj.t = "list" ->
            LET RECURSIVE joined(_)
                joined(i) ==
                    IF i > Len(obj.v) THEN <<>>
                    ELSE (IF i > 1 THEN <<",", " ">> ELSE <<>>)
                         \o (IF obj.v[i].t = "str" THEN <<"'">> \o obj.v[i].v \o <<"'">>
                             ELSE str(obj.v[i]))
                         \o joined(i + 1)
            IN  <<"[">> \o joined(1) \o <<"]">>

\* the nearest integer to n / d for n >= 0, ties to the even one
RoundHalfEven(n, d) ==
    LET q == n \div d
        r == n % d
    IN  IF 2 * r > d \/ (2 * r = d /\ q % 2 = 1) THEN q + 1 ELSE q

\* '{:+0.1%}'.format(f): the sign, 100 * f with one decimal, '%'
format_percent(f) ==
    LET sign == IF f.n < 0 THEN <<"-">> ELSE <<"+">>
        tenths == RoundHalfEven(Abs(f.n) * 1000, f.d)
    IN  IF f.k = "inf" THEN sign \o <<"i", "n", "f", "%">>
        ELSE sign \o str_of_nat(tenths \div 10) \o <<".">> \o str_of_nat(tenths % 10)
               \o <<"%">>

\* _generate_formatted_output.output_percent(obj)
output_percent(obj) ==
    LET f == IF obj.t = "withdelta" THEN obj.v.delta ELSE None
    IN  IF f = None THEN Spaces(delta_colw)
        ELSE IF f.v.k = "nan" THEN Spaces(delta_colw - 3) \o <<"n", "/", "a">>
        ELSE IF FEq(f.v, FZero) THEN Spaces(delta_colw - 1) \o <<"=">>
        ELSE LET as_string == format_percent(f.v)
                 padding == Spaces(delta_colw - Len(as_string))
             IN  IF FGt(f.v, Frac(5, 100)) THEN padding \o FAIL \o as_string \o ENDC
                 ELSE IF FGt(f.v, FZero) THEN padding \o WARNING \o as_string \o ENDC
                 ELSE padding \o OKGREEN \o as_string \o ENDC

\* the deltas of the runs of a key
ConsoleDeltas ==
    { None, PyFloat(FNaN), PyFloat(FZero), PyFloat(Frac(1, 50)), PyFloat(Frac(1, 20)),
      PyFloat(Frac(51, 1000)), PyFloat(Frac(1, 5)), PyFloat(Frac(-1, 5)),
      PyFloat(Frac(-1, 1000)), PyFloat(FInf), PyFloat(FNegInf) }

\* the entries of the list of a key: plain values and values with a delta
ConsoleValues ==
    {None, PyInt(12)} \cup { withdelta(PyInt(10), d) : d \in ConsoleDeltas }

\* runs_group[k] for the one key of the group: a list with one entry per run
ConsoleRunLists == UNION { [1..n -> ConsoleValues] : n \in 1..MaxRuns }

ConsoleKey == <<"t", "i", "m", "e">>

key_colw == 4

\* the row of key k starts with the key and the value of run 0
generate_key ==
    /\ opc = "generate"
    /\ formatted_output = <<>>
    /\ formatted_output' = << OKBLUE \o ConsoleKey \o ENDC \o Spaces(key_colw - Len(ConsoleKey)),
                              str(val_of(runs_group[1])) >>
    /\ UNCHANGED <<runs_group, opc>>
    /\ UNCHANGED not_ovars

\* for val in self.runs_group[k][1:]: the value and the delta of a run
generate_value ==
    /\ opc = "generate"
    /\ formatted_output # <<>>
    /\ Len(formatted_output) < 2 * Len(runs_group)
    /\ LET val == runs_group[Len(formatted_output) \div 2 + 1]
       IN  formatted_output' = formatted_output \o <<str(val_of(val)), output_percent(val)>>
    /\ UNCHANGED <<runs_group, opc>>
    /\ UNCHANGED not_ovars

\* the row is complete
generate_return ==
    /\ opc = "generate"
    /\ Len(formatted_output) = 2 * Len(runs_group)
    /\ opc' = "generated"
    /\ UNCHANGED <<runs_group, formatted_output>>
    /\ UNCHANGED not_ovars

----------------------------------------------------------------------------
(* TableFormatterBase and TableFilteredBase: construction *)

MaxTable == 2
MaxRaw == 2

PyBool(b) == [t |-> "bool", v |-> b]

\* a column name as the str that Location.value holds in the header row
KeyStr(key) == PyStr(<<key>>)

\* the column names of the tables, in the order sorted() gives them
ColumnNames == <<"id", "mem", "time">>

FormatterClasses == {"TableFormatterBase", "TableFilteredBase"}

\* TableFilteredBase and its subclass HTMLSheetFormatter
IsFiltered(c) == c \in {"TableFilteredBase", "HTMLSheetFormatter"}

\* TableFilteredBase.get_column_attribute(col_name, attrib_name, False): the
\* defaults of the attributes and of the callers are all False
get_column_attribute(col_name, attrib_name) ==
    <<col_name, attrib_name>> \in column_descriptors

Location ==
    [loc_in_table |-> "None", n_group |-> -1, n_col |-> -1, col_name |-> "None",
     n_run |-> -1, num_of_runs_in_cell |-> -1, num_of_runs_in_group |-> -1,
     value |-> None, delta |-> None, loc_in_cell |-> "None", col_has_delta |-> None]

LOC_IN_CELL_VALUE == "LOC_IN_CELL_VALUE"
LOC_IN_CELL_DELTA == "LOC_IN_CELL_DELTA"
LOC_IN_TABLE_HDR == "LOC_IN_TABLE_HDR"
LOC_IN_TABLE_BODY == "LOC_IN_TABLE_BODY"
LOC_IN_TABLE_FOOTER == "LOC_IN_TABLE_FOOTER"

\* the runs of the scanned files of the body groups: two runs of one object,
\* a single run, a run list with an absent run and its own key, and a run
\* holding the group-by key only
TableRunLists ==
    { << PyDict([key \in {"id", "time"} |-> IF key = "id" THEN PyStr(<<"A">>) ELSE PyInt(10)]),
         PyDict([key \in {"id", "time"} |-> IF key = "id" THEN PyStr(<<"A">>) ELSE PyInt(12)]) >>,
      << PyDict([key \in {"id", "time"} |-> IF key = "id" THEN PyStr(<<"B">>) ELSE PyInt(10)]) >>,
      << PyDict([key \in {"id", "mem"} |-> IF key = "id" THEN PyStr(<<"A">>) ELSE PyInt(10)]),
         None >>,
      << PyDict([key \in {"id"} |-> PyStr(<<"B">>)]) >> }

\* a body group: the runs of one object grouped by "id" and delta-annotated
TableGroups == { annotated_group(grouped_runs("id", as_dicts(rs))) : rs \in TableRunLists }
Tables == UNION { [1..n -> TableGroups] : n \in 0..MaxTable }

\* the orders in which the elements of a set or the keys of a dict may come
Orders(S) == { s \in [1..Cardinality(S) -> S] : \A i, j \in DOMAIN s : s[i] = s[j] => i = j }

\* compute_footer_from_grouped_runs(grouped_runs, with_delta): the returned
\* dictionary, or the exception that add_deltas_to_grouped_runs raises
candidate_footer(gs, wd) ==
    LET ms == accumulated("max", gs)
        ss == divided_sums(accumulated("sum", gs), Len(gs))
    IN  IF ~wd THEN [raised |-> "None", avg |-> ss, max |-> ms]
        ELSE IF has_empty_list(ss) \/ has_empty_list(ms)
             THEN [raised |-> "IndexError", avg |-> ss, max |-> ms]
        ELSE [raised |-> "None", avg |-> footer_with_deltas(ss, ms).avg,
              max |-> footer_with_deltas(ss, ms).max]

\* _get_extra_info: self._col_has_delta over gs = self.table + self.footer
extra_col_has_delta(gs) ==
    [k \in UNION { DOMAIN gs[i].v : i \in DOMAIN gs } |->
       \E i \in DOMAIN gs :
          /\ k \in DOMAIN gs[i].v
          /\ gs[i].v[k].t = "list"
          /\ \E j \in DOMAIN gs[i].v[k].v : gs[i].v[k].v[j].t = "withdelta"]

\* _get_extra_info: self._num_of_runs_in_cell
extra_num_of_runs_in_cell(gs) ==
    [i \in DOMAIN gs |->
       [k \in DOMAIN gs[i].v |->
          IF gs[i].v[k].t = "list" THEN Len(gs[i].v[k].v) ELSE -1]]

\* _get_extra_info counting the runs of a group from 0
extra_num_of_runs_in_group_from_zero(gs) ==
    [i \in DOMAIN gs |->
       LET cells == {extra_num_of_runs_in_cell(gs)[i][k] : k \in DOMAIN gs[i].v} \cup {0}
       IN  CHOOSE m \in cells : \A n \in cells : n <= m]

\* _get_extra_info: self._num_of_runs_in_group
extra_num_of_runs_in_group(gs) ==
    [i \in DOMAIN gs |->
       LET cells == {extra_num_of_runs_in_cell(gs)[i][k] : k \in DOMAIN gs[i].v} \cup {-1}
       IN  CHOOSE m \in cells : \A n \in cells : n <= m]

\* TableFormatterBase.__init__ and TableFilteredBase.__init__
construct ==
    /\ tpc = "new"
    /\ LET cf == candidate_footer(table, footer_with_delta)
       IN  IF cf.raised # "None"
           THEN /\ tpc' = "__init__ raised " \o cf.raised
                /\ UNCHANGED <<footer, footer_names, all_keys, col_has_delta,
                               num_of_runs_in_group, num_of_runs_in_cell>>
           ELSE /\ tpc' = "constructed"
                /\ footer_names' \in Orders({"max", "avg"})
                /\ footer' = [i \in 1..2 |-> cf[footer_names'[i]]]
                /\ all_keys' = UNION { DOMAIN (table \o footer')[i].v : i \in 1..Len(table) + 2 }
                /\ col_has_delta' = extra_col_has_delta(table \o footer')
                /\ num_of_runs_in_cell' = extra_num_of_runs_in_cell(table \o footer')
                /\ num_of_runs_in_group' = extra_num_of_runs_in_group(table \o footer')
    /\ UNCHANGED <<fcls, table, footer_with_delta, header, tconf, loc, output,
                   indent, stand_out_class_cache, returned>>
    /\ UNCHANGED not_tvars

----------------------------------------------------------------------------
(* TableFormatterBase.run *)

\* TableFormatterBase.recompute_header: sorted(list(all_keys))
sorted(keys) == SelectSeq(ColumnNames, LAMBDA c : c \in keys)

\* the elements of a list
Elements(s) == { s[i] : i \in DOMAIN s }

\* recompute_header dropping the toggled-off columns from the unlisted
\* columns only
recompute_header_keeps_preferred(c, keys) ==
    IF ~IsFiltered(c) THEN {sorted(keys)}
    ELSE LET exclude == { k \in keys : get_column_attribute(k, "toggle_off") }
             listed == SelectSeq(preferred_order, LAMBDA col : col \in keys)
             unlisted == { col \in keys : col \notin exclude
                                          /\ col \notin Elements(preferred_order) }
         IN  { listed \o rest : rest \in Orders(unlisted) }

\* recompute_header of the class: the possible headers. TableFilteredBase
\* lists the columns outside preferred_order in the iteration order of the
\* set all_keys
recompute_header(c, keys) ==
    IF ~IsFiltered(c) THEN {sorted(keys)}
    ELSE LET exclude == { k \in keys : get_column_attribute(k, "toggle_off") }
             listed == SelectSeq(preferred_order,
                                 LAMBDA col : col \in keys /\ col \notin exclude)
             unlisted == { col \in keys : col \notin exclude
                                          /\ col \notin Elements(preferred_order) }
         IN  { listed \o rest : rest \in Orders(unlisted) }

\* column_has_delta of the class
column_has_delta(col_name) ==
    IF IsFiltered(fcls) /\ get_column_attribute(col_name, "toggle_delta_off")
    THEN FALSE
    ELSE col_has_delta[col_name]

----------------------------------------------------------------------------
(* HTMLSheetFormatter: the hooks *)

\* the str a hook returns, by its parts: the number of spaces before it,
\* the tag name ("" for bare text, "/td" for a closing tag), the classes,
\* the colspan and rowspan attributes (0 when absent) and the body
Markup(indentation, tag_name, classes, attributes, body) ==
    [t |-> "markup",
     v |-> [indentation |-> indentation, tag_name |-> tag_name, classes |-> classes,
            attributes |-> attributes, body |-> body]]

NoAttributes == [colspan |-> 0, rowspan |-> 0]

\* what a hook leaves behind: its return value, self._indent and
\* self._stand_out_class_cache
Left(ret, ind, cache) ==
    [returned |-> ret, indent |-> ind, stand_out_class_cache |-> cache]

\* return self.increase_indent() + '<tag_name ...>'
Opening(tag_name, classes, attributes, cache) ==
    Left(Markup(4 * indent, tag_name, classes, attributes, None), indent + 1, cache)

\* return self.decrease_indent() + '</tag_name>'
Closing(tag_name) ==
    Left(Markup(4 * (indent - 1), tag_name, <<>>, NoAttributes, None), indent - 1,
         stand_out_class_cache)

\* return None
Nothing(cache) == Left(None, indent, cache)

\* quick_html_escape(txt): cgi.escape with quote=True
RECURSIVE quick_html_escape(_)
quick_html_escape(txt) ==
    IF txt = <<>> THEN <<>>
    ELSE (CASE Head(txt) = "&" -> <<"&", "a", "m", "p", ";">>
            [] Head(txt) = "<" -> <<"&", "l", "t", ";">>
            [] Head(txt) = ">" -> <<"&", "g", "t", ";">>
            [] Head(txt) = "\"" -> <<"&", "q", "u", "o", "t", ";">>
            [] OTHER -> <<Head(txt)>>) \o quick_html_escape(Tail(txt))

\* a cell that no row but the first of its group renders
cell_never_collapsed(l) == FALSE

\* loc.num_of_runs_in_cell <= 0 and loc.num_of_runs_in_group > 0
cell_is_collapsed(l) == l.num_of_runs_in_cell <= 0 /\ l.num_of_runs_in_group > 0

\* HTMLSheetFormatter.cell_is_th
cell_is_th(l) ==
    l.loc_in_table = LOC_IN_TABLE_HDR \/ (l.num_of_runs_in_cell <= 0 /\ l.n_col = 0)

\* HTMLSheetFormatter.get_stand_out_class; "None" stands for None
get_stand_out_class(l) ==
    IF l.delta = None THEN "muted"
    ELSE IF l.delta.v.k = "nan" THEN "None"
    ELSE IF get_column_attribute(l.col_name, "bigger_is_better")
    THEN IF FGt(Frac(-5, 100), l.delta.v) THEN "danger"
         ELSE IF FGt(FZero, l.delta.v) THEN "warning"
         ELSE IF FGt(Frac(5, 100), l.delta.v) THEN "info"
         ELSE "success"
    ELSE IF FGe(Frac(-5, 100), l.delta.v) THEN "success"
         ELSE IF FGe(FZero, l.delta.v) THEN "info"
         ELSE IF FGe(Frac(5, 100), l.delta.v) THEN "warning"
         ELSE "danger"

\* _get_stand_out_class_from_cache: the key of a cell
cache_key(l) == <<l.n_group, l.n_run, l.n_col>>

\* _get_stand_out_class_from_cache: the class returned
get_stand_out_class_from_cache(l) ==
    IF cache_key(l) \in DOMAIN stand_out_class_cache
    THEN stand_out_class_cache[cache_key(l)]
    ELSE get_stand_out_class(l)

\* _get_stand_out_class_from_cache: the cache it leaves
cache_after_get(l) ==
    IF cache_key(l) \in DOMAIN stand_out_class_cache
    THEN stand_out_class_cache
    ELSE (cache_key(l) :> get_stand_out_class(l)) @@ stand_out_class_cache

\* the contextual class appended to the classes of a stand-out cell
contextual(l) ==
    IF get_stand_out_class_from_cache(l) \in {"None", "muted"} THEN <<>>
    ELSE <<get_stand_out_class_from_cache(l)>>

\* get_delta_text_and_classes: as_string, None for a nan delta. An infinite
\* delta shows the difference to slot 0 of self.table[loc.n_group], and
\* +INF or -INF when that lookup or the subtraction raises
delta_text(l) ==
    IF l.delta = None THEN PyStr(<<"n", "/", "a">>)
    ELSE IF l.delta.v.k = "nan" THEN None
    ELSE IF l.delta.v.k = "inf"
    THEN LET found == /\ l.n_group < Len(table)
                      /\ l.col_name \in DOMAIN table[l.n_group + 1].v
                      /\ table[l.n_group + 1].v[l.col_name].t = "list"
                      /\ table[l.n_group + 1].v[l.col_name].v # <<>>
                      /\ table[l.n_group + 1].v[l.col_name].v[1].t = "int"
                      /\ l.value.t = "int"
             this_value == l.value.v - table[l.n_group + 1].v[l.col_name].v[1].v
         IN  IF found
             THEN PyStr((IF this_value >= 0 THEN <<"+">> ELSE <<>>) \o str(PyInt(this_value)))
             ELSE PyStr(IF l.delta.v.n > 0 THEN <<"+", "I", "N", "F">>
                        ELSE <<"-", "I", "N", "F">>)
    ELSE PyStr(format_percent(l.delta.v))

\* HTMLSheetFormatter.begin_group and end_group; the update of loc that
\* precedes either leaves loc.loc_in_table alone
html_group(hook) ==
    IF loc.loc_in_table # LOC_IN_TABLE_BODY THEN Nothing(stand_out_class_cache)
    ELSE IF hook = "begin_group"
    THEN Opening("tbody", <<>>, NoAttributes, stand_out_class_cache)
    ELSE Closing("/tbody")

\* HTMLSheetFormatter.begin_row
html_begin_row(l) ==
    IF l.loc_in_table = LOC_IN_TABLE_FOOTER /\ l.n_run = 0
    THEN Opening("tr", <<"as-tbody">>, NoAttributes, stand_out_class_cache)
    ELSE Opening("tr", <<>>, NoAttributes, stand_out_class_cache)

\* HTMLSheetFormatter.begin_value
html_begin_value(l) ==
    LET th == cell_is_th(l)
        hdr == l.loc_in_table = LOC_IN_TABLE_HDR
        first == cell_is_collapsed(l) /\ l.n_run = 0
        stand_out == get_column_attribute(l.col_name, "stand_out")
        classes == (IF ~th THEN <<"text-right">>
                    ELSE IF l.loc_in_table = LOC_IN_TABLE_FOOTER
                    THEN <<"text-muted", "text-center">>
                    ELSE IF hdr THEN <<"text-center">> ELSE <<>>)
                   \o (IF stand_out THEN <<"stand-out">> ELSE <<>>)
                   \o (IF stand_out /\ ~hdr THEN contextual(l) ELSE <<>>)
        attributes == [colspan |-> IF (hdr \/ first) /\ column_has_delta(l.col_name)
                                   THEN 2 ELSE 0,
                       rowspan |-> IF first THEN l.num_of_runs_in_group ELSE 0]
    IN  IF cell_is_collapsed(l) /\ l.n_run # 0 THEN Nothing(stand_out_class_cache)
        ELSE Opening(IF th THEN "th" ELSE "td", classes, attributes,
                     IF stand_out /\ ~hdr THEN cache_after_get(l)
                     ELSE stand_out_class_cache)

\* end_value closing the cell on every row
html_end_value_always_closes(l) == Closing(IF cell_is_th(l) THEN "/th" ELSE "/td")

\* HTMLSheetFormatter.end_value
html_end_value(l) ==
    IF cell_is_collapsed(l) /\ l.n_run > 0 THEN Nothing(stand_out_class_cache)
    ELSE Closing(IF cell_is_th(l) THEN "/th" ELSE "/td")

\* HTMLSheetFormatter.process_value; no column has a formatter
html_process_value(l) ==
    LET val == IF /\ l.loc_in_table = LOC_IN_TABLE_FOOTER
                  /\ l.num_of_runs_in_cell <= 0 /\ l.n_col = 0
               THEN PyStr(<<footer_names[l.n_group + 1]>>)
               ELSE l.value
    IN  IF cell_is_collapsed(l) /\ l.n_run > 0 THEN Nothing(stand_out_class_cache)
        ELSE IF val = None
        THEN Left(Markup(4 * indent, "span", <<"text-muted">>, NoAttributes,
                         PyStr(<<"n", "/", "a">>)),
                  indent, stand_out_class_cache)
        ELSE Left(Markup(4 * indent, "", <<>>, NoAttributes,
                         PyStr(quick_html_escape(str(val)))),
                  indent, stand_out_class_cache)

\* the delta hooks return None at once
delta_is_skipped(l) ==
    \/ ~column_has_delta(l.col_name)
    \/ l.loc_in_table = LOC_IN_TABLE_HDR
    \/ cell_is_collapsed(l) /\ l.n_run > 0

\* HTMLSheetFormatter.begin_delta
html_begin_delta(l) ==
    LET stand_out == get_column_attribute(l.col_name, "stand_out")
    IN  IF delta_is_skipped(l) THEN Nothing(stand_out_class_cache)
        ELSE Opening("td",
                     <<"delta">> \o (IF stand_out THEN <<"stand-out">> \o contextual(l)
                                     ELSE <<>>),
                     NoAttributes,
                     IF stand_out THEN cache_after_get(l) ELSE stand_out_class_cache)

\* HTMLSheetFormatter.end_delta
html_end_delta(l) ==
    IF delta_is_skipped(l) THEN Nothing(stand_out_class_cache) ELSE Closing("/td")

\* HTMLSheetFormatter.process_delta
html_process_delta(l) ==
    LET body == delta_text(l)
        stand_out_class == get_stand_out_class_from_cache(l)
    IN  IF delta_is_skipped(l) \/ l.n_run = 0 THEN Nothing(stand_out_class_cache)
        ELSE IF body = None THEN Nothing(cache_after_get(l))
        ELSE Left(Markup(4 * indent, "small",
                         IF stand_out_class = "None" THEN <<>>
                         ELSE <<"text-" \o stand_out_class>>,
                         NoAttributes, PyStr(quick_html_escape(body.v))),
                  indent, cache_after_get(l))

\* what self.<hook>(loc) leaves behind: html for an HTMLSheetFormatter, which
\* overrides the hook; the hooks of TableFormatterBase and TableFilteredBase
\* return None
hook_result(html) ==
    IF fcls # "HTMLSheetFormatter" THEN Nothing(stand_out_class_cache) ELSE html

\* the hook is called and leaves its return value and the state of the visitor
hook_called(html) ==
    /\ returned' = hook_result(html).returned
    /\ indent' = hook_result(html).indent
    /\ stand_out_class_cache' = hook_result(html).stand_out_class_cache

----------------------------------------------------------------------------
(* TableFormatterBase.run: the walk *)

\* append(self.<hook>(loc.update(...)))
call_hook(hook, updated, html) ==
    /\ loc' = updated
    /\ output' = Append(output, hook)
    /\ tpc' = hook
    /\ hook_called(html)
    /\ UNCHANGED <<tinst, tconf, header>>
    /\ UNCHANGED not_tvars

\* the groups process_groups walks in the current section, and its offset
section_groups == IF loc.loc_in_table = LOC_IN_TABLE_BODY THEN table ELSE footer
group_offset == IF loc.loc_in_table = LOC_IN_TABLE_BODY THEN 0 ELSE Len(table)
InGroups == loc.loc_in_table \in {LOC_IN_TABLE_BODY, LOC_IN_TABLE_FOOTER}

\* obj[n_run]: the element, or the exception the subscript raises
subscript(obj, n_run) ==
    IF obj.t \in {"list", "tuple"}
    THEN IF n_run < Len(obj.v) THEN [raised |-> "None", item |-> obj.v[n_run + 1]]
         ELSE [raised |-> "IndexError", item |-> None]
    ELSE IF obj.t = "str"
    THEN IF n_run < Len(obj.v) THEN [raised |-> "None", item |-> PyStr(<<obj.v[n_run + 1]>>)]
         ELSE [raised |-> "IndexError", item |-> None]
    ELSE [raised |-> "TypeError", item |-> None]

\* process_groups: runs_in_cell, value and delta of the cell of column
\* col_name in row n_run of group n_group, or the exception raised
cell(gs, n_group, n_run, col_name) ==
    LET group == gs[n_group + 1].v
    IN  IF col_name \notin DOMAIN group
        THEN [raised |-> "None", runs_in_cell |-> -1, value |-> None, delta |-> None]
        ELSE IF col_name \notin DOMAIN num_of_runs_in_cell[n_group + 1]
        THEN [raised |-> "KeyError", runs_in_cell |-> -1, value |-> None, delta |-> None]
        ELSE LET runs_in_cell == num_of_runs_in_cell[n_group + 1][col_name]
                 got == IF runs_in_cell > 0 THEN subscript(group[col_name], n_run)
                        ELSE [raised |-> "None", item |-> group[col_name]]
             IN  [raised |-> got.raised, runs_in_cell |-> runs_in_cell,
                  value |-> val_of(got.item),
                  delta |-> IF got.item.t = "withdelta" THEN got.item.v.delta ELSE None]

\* the columns a caller turns the delta off for
ToggledColumns == {"time"}

\* TableFilteredBase.set_column_attribute(col_name, 'toggle_delta_off', True)
set_column_attribute ==
    /\ tpc = "constructed"
    /\ IsFiltered(fcls)
    /\ \E col_name \in ToggledColumns :
          /\ <<col_name, "toggle_delta_off">> \notin column_descriptors
          /\ column_descriptors' = column_descriptors \cup {<<col_name, "toggle_delta_off">>}
    /\ UNCHANGED <<tinst, preferred_order, header, loc, output, tpc,
                   indent, stand_out_class_cache, returned>>
    /\ UNCHANGED not_tvars

\* self.header = self.recompute_header(self._all_keys); loc = Location();
\* append(self.begin_table(loc))
begin_table ==
    /\ tpc = "constructed"
    /\ header' \in recompute_header(fcls, all_keys)
    /\ loc' = Location
    /\ output' = <<"begin_table">>
    /\ tpc' = "begin_table"
    /\ hook_called(Opening("table", <<"table", "table-condensed", "table-striped">>,
                            NoAttributes, stand_out_class_cache))
    /\ UNCHANGED <<tinst, tconf>>
    /\ UNCHANGED not_tvars

begin_header ==
    /\ tpc = "begin_table"
    /\ call_hook("begin_header", [loc EXCEPT !.loc_in_table = LOC_IN_TABLE_HDR],
                 Opening("thead", <<>>, NoAttributes, stand_out_class_cache))

begin_body ==
    /\ tpc = "end_header"
    /\ call_hook("begin_body", [loc EXCEPT !.loc_in_table = LOC_IN_TABLE_BODY],
                 Nothing(stand_out_class_cache))

begin_footer ==
    /\ tpc = "end_body"
    /\ call_hook("begin_footer", [loc EXCEPT !.loc_in_table = LOC_IN_TABLE_FOOTER],
                 Opening("tfoot", <<>>, NoAttributes, stand_out_class_cache))

\* for n_group in xrange(0, len(groups)): begin_group
begin_group ==
    /\ InGroups
    /\ \E n_group \in 0..Len(section_groups) - 1 :
          /\ \/ tpc \in {"begin_body", "begin_footer"} /\ n_group = 0
             \/ tpc = "end_group" /\ n_group = loc.n_group + 1
          /\ call_hook("begin_group",
                [loc EXCEPT !.n_group = n_group,
                            !.num_of_runs_in_group =
                                num_of_runs_in_group[n_group + group_offset + 1]],
                html_group("begin_group"))

\* begin_row of the header row, or for n_run in xrange(0, runs_in_group)
begin_row ==
    \/ /\ tpc = "begin_header"
       /\ call_hook("begin_row", loc, html_begin_row(loc))
    \/ /\ InGroups
       /\ \E n_run \in 0..loc.num_of_runs_in_group - 1 :
             /\ \/ tpc = "begin_group" /\ n_run = 0
                \/ tpc = "end_row" /\ n_run = loc.n_run + 1
             /\ call_hook("begin_row", [loc EXCEPT !.n_run = n_run],
                          html_begin_row([loc EXCEPT !.n_run = n_run]))

\* for n_col in xrange(0, len(self.header)): begin_col
begin_col ==
    \E n_col \in 0..Len(header) - 1 :
       /\ \/ tpc = "begin_row" /\ n_col = 0
          \/ tpc = "end_col" /\ n_col = loc.n_col + 1
       /\ LET col_name == header[n_col + 1]
              c == cell(section_groups, loc.n_group, loc.n_run, col_name)
          IN  IF loc.loc_in_table = LOC_IN_TABLE_HDR
              THEN call_hook("begin_col",
                      [loc EXCEPT !.value = KeyStr(col_name),
                                  !.n_col = n_col,
                                  !.col_has_delta = PyBool(column_has_delta(col_name)),
                                  !.col_name = col_name],
                      Nothing(stand_out_class_cache))
              ELSE IF c.raised # "None"
              THEN /\ tpc' = c.raised
                   /\ UNCHANGED <<tinst, tconf, header, loc, output,
                                  indent, stand_out_class_cache, returned>>
                   /\ UNCHANGED not_tvars
              ELSE call_hook("begin_col",
                      [loc EXCEPT !.value = c.value,
                                  !.delta = c.delta,
                                  !.num_of_runs_in_cell = c.runs_in_cell,
                                  !.col_has_delta = PyBool(column_has_delta(col_name)),
                                  !.n_col = n_col,
                                  !.col_name = col_name],
                      Nothing(stand_out_class_cache))

begin_value ==
    /\ tpc = "begin_col"
    /\ call_hook("begin_value", [loc EXCEPT !.loc_in_cell = LOC_IN_CELL_VALUE],
                 html_begin_value([loc EXCEPT !.loc_in_cell = LOC_IN_CELL_VALUE]))

process_value ==
    /\ tpc = "begin_value"
    /\ call_hook("process_value", loc, html_process_value(loc))

end_value ==
    /\ tpc = "process_value"
    /\ call_hook("end_value", loc, html_end_value(loc))

begin_delta ==
    /\ tpc = "end_value"
    /\ call_hook("begin_delta", [loc EXCEPT !.loc_in_cell = LOC_IN_CELL_DELTA],
                 html_begin_delta([loc EXCEPT !.loc_in_cell = LOC_IN_CELL_DELTA]))

process_delta ==
    /\ tpc = "begin_delta"
    /\ call_hook("process_delta", loc, html_process_delta(loc))

end_delta ==
    /\ tpc = "process_delta"
    /\ call_hook("end_delta", loc, html_end_delta(loc))

\* end_col called without resetting loc_in_cell
end_col_keeps_loc_in_cell ==
    /\ tpc = "end_delta"
    /\ call_hook("end_col", loc, Nothing(stand_out_class_cache))

end_col ==
    /\ tpc = "end_delta"
    /\ call_hook("end_col", [loc EXCEPT !.loc_in_cell = "None"],
                 Nothing(stand_out_class_cache))

\* end_row once the loop over the columns is over
end_row ==
    /\ \/ tpc = "begin_row" /\ Len(header) = 0
       \/ tpc = "end_col" /\ loc.n_col + 1 = Len(header)
    /\ IF loc.loc_in_table = LOC_IN_TABLE_HDR
       THEN call_hook("end_row",
               [loc EXCEPT !.value = None, !.n_col = -1,
                           !.col_has_delta = None, !.col_name = "None"],
               Closing("/tr"))
       ELSE call_hook("end_row",
               [loc EXCEPT !.value = None, !.delta = None,
                           !.num_of_runs_in_cell = -1, !.col_has_delta = None,
                           !.n_col = -1, !.col_name = "None"],
               Closing("/tr"))

end_header ==
    /\ tpc = "end_row"
    /\ loc.loc_in_table = LOC_IN_TABLE_HDR
    /\ call_hook("end_header", loc, Closing("/thead"))

\* end_group once the loop over the runs is over
end_group ==
    /\ InGroups
    /\ \/ tpc = "begin_group" /\ loc.num_of_runs_in_group <= 0
       \/ tpc = "end_row" /\ loc.n_run + 1 = loc.num_of_runs_in_group
    /\ call_hook("end_group", [loc EXCEPT !.n_run = -1], html_group("end_group"))

\* the end of process_groups(self.table)
end_body ==
    /\ loc.loc_in_table = LOC_IN_TABLE_BODY
    /\ \/ tpc = "begin_body" /\ Len(table) = 0
       \/ tpc = "end_group" /\ loc.n_group + 1 = Len(table)
    /\ call_hook("end_body", [loc EXCEPT !.n_group = -1, !.num_of_runs_in_group = -1],
                 Nothing(stand_out_class_cache))

\* the end of process_groups(self.footer, len(self.table))
end_footer ==
    /\ loc.loc_in_table = LOC_IN_TABLE_FOOTER
    /\ tpc = "end_group"
    /\ loc.n_group + 1 = Len(footer)
    /\ call_hook("end_footer", [loc EXCEPT !.n_group = -1, !.num_of_runs_in_group = -1],
                 Closing("/tfoot"))

\* append(self.end_table(...)); return self._output
end_table ==
    /\ tpc = "end_footer"
    /\ loc' = [loc EXCEPT !.loc_in_table = "None"]
    /\ output' = Append(output, "end_table")
    /\ tpc' = "returned"
    /\ hook_called(Closing("/table"))
    /\ UNCHANGED <<tinst, tconf, header>>
    /\ UNCHANGED not_tvars

----------------------------------------------------------------------------
(* StatsExtractorBase.scan_multiple_runs and scan *)

MaxFiles == 2

\* get_all_extractors() of a subclass: its extractors, in the order in which
\* the subclass registers them under their keys
RegisteredExtractors ==
    << [key |-> "name", cls |-> "RegexExtractor", policy |-> POLICY_KEEP_LAST],
       [key |-> "count", cls |-> "IntConverterExtractor", policy |-> POLICY_SUM] >>
RegisteredKeys == [i \in DOMAIN RegisteredExtractors |-> RegisteredExtractors[i].key]

\* a path names no file (os.path.isfile is false) or a file of some lines
MissingFile == [t |-> "missing", v |-> <<>>]
FileOf(ls) == [t |-> "file", v |-> ls]
ScanFiles ==
    { MissingFile,
      FileOf(<<>>),
      FileOf(<< <<"=", "1">> >>),
      FileOf(<< <<"x">>, <<"=", "2">> >>),
      FileOf(<< <<"=", "1">>, <<"=", "x">>, <<"=", "2">> >>) }
FileLists == UNION { [1..n -> ScanFiles] : n \in 0..MaxFiles }

\* cls(fh): self.extractors = get_all_extractors(), every extractor fresh
new_extractors ==
    [k \in Elements(RegisteredKeys) |->
       LET e == RegisteredExtractors[CHOOSE i \in DOMAIN RegisteredKeys : RegisteredKeys[i] = k]
       IN  [cls |-> e.cls, policy |-> e.policy, value |-> None, num_of_matches |-> 0]]

\* the extractor after ExtractorBase.process_line(line)
after_process_line(e, line) ==
    LET candidate == extract_value_from_line(e.cls, line)
    IN  [e EXCEPT !.num_of_matches = count_match(e.num_of_matches, candidate),
                  !.value = IF candidate # None
                            THEN fold_value(e.policy, e.value, candidate)
                            ELSE e.value]

\* for k in self.extractors taking the keys in the reverse order
iterated_key_reversed(i) == keys_order[Len(keys_order) + 1 - i]

\* for k in self.extractors: the i-th key the dictionary gives
iterated_key(i) == keys_order[i]

Called(call, key, line_no) == [call |-> call, key |-> key, line_no |-> line_no]

\* run_list after a missing file that leaves no entry
append_placeholder_skipped(rl) == rl

\* run_list.append(None)
append_placeholder(rl) == Append(rl, None)

\* the StatsExtractorBase instance that scan_multiple_runs appends
ScannedRun == [t |-> "StatsExtractorBase",
               v |-> [extractors |-> extractors, scan_log |-> scan_log]]

\* os.path.isfile(filename) is true: open(filename, 'r'), cls(fh)
scan_multiple_runs_open ==
    /\ spc = "files"
    /\ file_index <= Len(files)
    /\ files[file_index].t = "file"
    /\ handles' = Append(handles, [op |-> "open", file |-> file_index])
    /\ fh' = 1
    /\ k_index' = 1
    /\ extractors' = new_extractors
    /\ scan_log' = <<>>
    /\ spc' = "scan"
    /\ UNCHANGED <<files, keys_order, file_index, run_list>>
    /\ UNCHANGED not_svars

\* os.path.isfile(filename) is false
scan_multiple_runs_missing ==
    /\ spc = "files"
    /\ file_index <= Len(files)
    /\ files[file_index].t = "missing"
    /\ run_list' = append_placeholder(run_list)
    /\ file_index' = file_index + 1
    /\ UNCHANGED <<files, keys_order, fh, k_index, extractors, scan_log, handles, spc>>
    /\ UNCHANGED not_svars

\* scan: self.extractors[k].process_line(line) of the two nested loops
scan_process_line ==
    /\ spc = "scan"
    /\ fh <= Len(files[file_index].v)
    /\ LET k == iterated_key(k_index)
       IN  /\ extractors' = [extractors EXCEPT
                               ![k] = after_process_line(@, files[file_index].v[fh])]
           /\ scan_log' = Append(scan_log, Called("process_line", k, fh))
    /\ IF k_index = Len(keys_order)
       THEN fh' = fh + 1 /\ k_index' = 1
       ELSE fh' = fh /\ k_index' = k_index + 1
    /\ UNCHANGED <<files, keys_order, file_index, handles, run_list, spc>>
    /\ UNCHANGED not_svars

\* scan: self.extractors[k].postprocess() of the second loop
scan_postprocess ==
    /\ spc = "scan"
    /\ fh > Len(files[file_index].v)
    /\ k_index <= Len(keys_order)
    /\ scan_log' = Append(scan_log, Called("postprocess", iterated_key(k_index), 0))
    /\ k_index' = k_index + 1
    /\ UNCHANGED <<files, keys_order, file_index, fh, extractors, handles, run_list, spc>>
    /\ UNCHANGED not_svars

\* scan: self.postprocess_scan()
scan_postprocess_scan ==
    /\ spc = "scan"
    /\ fh > Len(files[file_index].v)
    /\ k_index > Len(keys_order)
    /\ scan_log' = Append(scan_log, Called("postprocess_scan", "", 0))
    /\ spc' = "scanned"
    /\ UNCHANGED <<files, keys_order, file_index, fh, k_index, extractors, handles, run_list>>
    /\ UNCHANGED not_svars

\* run_list.append(extractor) and the end of the with block
scan_multiple_runs_append ==
    /\ spc = "scanned"
    /\ run_list' = Append(run_list, ScannedRun)
    /\ handles' = Append(handles, [op |-> "close", file |-> file_index])
    /\ file_index' = file_index + 1
    /\ spc' = "files"
    /\ UNCHANGED <<files, keys_order, fh, k_index, extractors, scan_log>>
    /\ UNCHANGED not_svars

\* return run_list
scan_multiple_runs_return ==
    /\ spc = "files"
    /\ file_index > Len(files)
    /\ spc' = "returned"
    /\ UNCHANGED <<files, keys_order, file_index, fh, k_index, extractors, scan_log,
                   handles, run_list>>
    /\ UNCHANGED not_svars

----------------------------------------------------------------------------
(* StatsExtractorBase.as_dict and __getattr__ *)

MaxKeys == 2

AttributeKeys == {"name", "count", "total"}

\* the extractors of a scanned instance, by key: each has matched nothing
\* or one line
ScannedExtractors ==
    UNION { [S -> { [cls |-> "RegexExtractor", policy |-> POLICY_KEEP_LAST,
                     value |-> None, num_of_matches |-> 0],
                    [cls |-> "RegexExtractor", policy |-> POLICY_KEEP_LAST,
                     value |-> PyStr(<<"1">>), num_of_matches |-> 1] }]
            : S \in SUBSET AttributeKeys }

\* the attributes get_<key> of the subclass, by key: a method returning a
\* value, or an attribute that cannot be called
Getters ==
    UNION { [S -> { [callable |-> TRUE, result |-> PyInt(7)],
                    [callable |-> FALSE, result |-> None] }]
            : S \in SUBSET AttributeKeys }

\* get_all_extracted_attributes(): a list of keys
AttributeLists == UNION { [1..n -> AttributeKeys] : n \in 0..MaxKeys }

\* __getattr__ asking the getter before the extractor
getattr_getter_first(name) ==
    IF name \in Elements(extracted_attributes) /\ name \in DOMAIN getters
       /\ getters[name].callable
    THEN getters[name].result
    ELSE IF name \in DOMAIN extractors THEN extractors[name].value
    ELSE Raise("AttributeError")

\* getattr(self, name) for a name that is no attribute of the instance or
\* of its class: StatsExtractorBase.__getattr__(name)
getattr(name) ==
    IF name \in DOMAIN extractors THEN extractors[name].value
    ELSE IF name \in Elements(extracted_attributes) /\ name \in DOMAIN getters
            /\ getters[name].callable
    THEN getters[name].result
    ELSE Raise("AttributeError")

\* as_dict: retval[k] = getattr(self, k) for the next k
as_dict_getattr ==
    /\ apc = "as_dict"
    /\ Len(record.keys) < Len(extracted_attributes)
    /\ LET k == extracted_attributes[Len(record.keys) + 1]
           x == getattr(k)
       IN  IF IsException(x)
           THEN apc' = x.v /\ record' = record
           ELSE /\ record' = [keys |-> Append(record.keys, k),
                              retval |-> (k :> x) @@ record.retval]
                /\ apc' = apc
    /\ UNCHANGED <<extracted_attributes, getters>>
    /\ UNCHANGED not_avars

\* as_dict: return retval
as_dict_return ==
    /\ apc = "as_dict"
    /\ Len(record.keys) = Len(extracted_attributes)
    /\ apc' = "returned"
    /\ UNCHANGED <<extracted_attributes, getters, record>>
    /\ UNCHANGED not_avars

----------------------------------------------------------------------------
(* Calls of get_delta_percent *)

DeltaValues ==
    { None,
      PyInt(-5), PyInt(0), PyInt(5), PyInt(10), PyInt(12),
      PyFloat(FNaN), PyFloat(FInf), PyFloat(FNegInf), PyFloat(FZero),
      PyFloat(Frac(-5, 1)), PyFloat(Frac(5, 1)), PyFloat(Frac(1, 2)),
      PyTimedelta(-1000000), PyTimedelta(0), PyTimedelta(10000000),
      PyTimedelta(12000000),
      PyStr(<<"A">>), PyStr(<<"B">>),
      PyList(<<PyInt(5)>>), withdelta(PyInt(5), PyFloat(FZero)) }

call_get_delta_percent ==
    /\ dpc = "call"
    /\ delta' = get_delta_percent(val1, val2)
    /\ dpc' = "return"
    /\ UNCHANGED <<val1, val2, not_dvars>>

----------------------------------------------------------------------------
(* HTMLSheetFormatter.run: the page around the table *)

MaxNames == 3

\* an instance attribute no statement has assigned yet
Unassigned == [t |-> "unassigned", v |-> <<>>]

\* the local run_names of run(): '    n/a'
run_names_placeholder == PyStr(<<" ", " ", " ", " ", "n", "/", "a">>)

\* begin_runs, called with self._indent = 1
begin_runs == Markup(4, "ol", <<>>, NoAttributes, None)

\* process_run(idx, name), called with self._indent = 2
process_run(idx, name) ==
    Markup(8, "li", <<>>, NoAttributes, PyStr(quick_html_escape(name)))

\* end_runs, called with self._indent = 2
end_runs == Markup(4, "/ol", <<>>, NoAttributes, None)

\* get_default_template().substitute(mapping): the page, by what fills
\* $run_names, $title and $table
substitute(mapping) == [t |-> "page", v |-> mapping]

\* run(): the test on self.run_names, and the lines up to begin_runs
html_run ==
    /\ ppc = "run"
    /\ IF Len(run_names) > 0
       THEN /\ runs_output' = PyList(<<begin_runs>>)
            /\ ppc' = "process_run"
       ELSE /\ runs_output' = runs_output
            /\ ppc' = "substitute"
    /\ UNCHANGED <<run_names, title, run_index, page, not_pvars>>

\* run(): one turn of the loop over self.run_names
html_process_run ==
    /\ ppc = "process_run"
    /\ run_index < Len(run_names)
    /\ runs_output' =
         PyList(Append(runs_output.v, process_run(run_index, run_names[run_index + 1])))
    /\ run_index' = run_index + 1
    /\ UNCHANGED <<run_names, title, page, ppc, not_pvars>>

\* run(): append(self.end_runs()) and self._indent = 0
html_end_runs ==
    /\ ppc = "process_run"
    /\ run_index = Len(run_names)
    /\ runs_output' = PyList(Append(runs_output.v, end_runs))
    /\ ppc' = "substitute"
    /\ UNCHANGED <<run_names, title, run_index, page, not_pvars>>

\* run(): the return statement. The mapping is built first, and its first
\* entry reads self._runs_output; 'table' is what the walk of
\* TableFormatterBase.run returns
html_substitute ==
    /\ ppc = "substitute"
    /\ IF runs_output = Unassigned
       THEN /\ ppc' = "AttributeError"
            /\ page' = page
       ELSE /\ ppc' = "returned"
            /\ page' = substitute([run_names |-> runs_output,
                                   title |-> PyStr(quick_html_escape(title)),
                                   table |-> "TableFormatterBase.run"])
    /\ UNCHANGED <<run_names, title, runs_output, run_index, not_pvars>>

----------------------------------------------------------------------------
(* Specifications *)

IdleExtract ==
    /\ cls = "RegexExtractor" /\ policy = POLICY_KEEP_LAST
    /\ value = None /\ num_of_matches = 0 /\ lines = <<>> /\ exc = "None"
    /\ other_extractor = NewExtractor

IdleGroup ==
    /\ runs = <<>> /\ input_runs = <<>> /\ group_by_key = NoGroupBy
    /\ retval = None /\ grouped = None /\ gpc = "idle"

IdleDelta == val1 = None /\ val2 = None /\ delta = None /\ dpc = "idle"

IdleFooter ==
    /\ groups = <<>> /\ with_delta = FALSE /\ sums = None /\ maxes = None
    /\ divided = None /\ fpc = "idle" /\ input_groups = <<>>

IdleTable ==
    /\ fcls = "TableFormatterBase" /\ table = <<>> /\ footer_with_delta = FALSE
    /\ footer = <<>> /\ footer_names = <<>> /\ header = <<>> /\ all_keys = {}
    /\ col_has_delta = <<>> /\ num_of_runs_in_group = <<>>
    /\ num_of_runs_in_cell = <<>> /\ column_descriptors = {}
    /\ preferred_order = <<>>
    /\ loc = Location /\ output = <<>> /\ tpc = "idle"
    /\ indent = 0 /\ stand_out_class_cache = <<>> /\ returned = None

IdleScan ==
    /\ files = <<>> /\ keys_order = <<>> /\ file_index = 0 /\ fh = 0 /\ k_index = 0
    /\ extractors = <<>> /\ scan_log = <<>> /\ handles = <<>> /\ run_list = <<>>
    /\ spc = "idle"

IdleAsDict ==
    /\ extracted_attributes = <<>> /\ getters = <<>>
    /\ record = [keys |-> <<>>, retval |-> <<>>] /\ apc = "idle"

IdleConsole == runs_group = <<>> /\ formatted_output = <<>> /\ opc = "idle"

IdlePage ==
    /\ run_names = <<>> /\ title = <<>> /\ runs_output = Unassigned
    /\ run_index = 0 /\ page = None /\ ppc = "idle"

\* ExtractorBase.__init__(policy) of either class
InitExtract ==
    /\ cls \in ExtractorClasses
    /\ policy \in Policies
    /\ value = None
    /\ num_of_matches = 0
    /\ lines = <<>>
    /\ exc = "None"
    /\ other_extractor = NewExtractor
    /\ IdleGroup /\ IdleDelta /\ IdleFooter /\ IdleTable /\ IdleScan
    /\ IdleAsDict /\ IdleConsole /\ IdlePage

NextExtract == \E line \in Lines : process_line(line)

SpecExtract == InitExtract /\ [][NextExtract]_vars

\* __init__(other_extractor, policy) of a value-converting extractor
\* wrapping a RegexExtractor
InitConvert ==
    /\ cls \in ConverterClasses
    /\ policy \in {POLICY_KEEP_LAST, POLICY_APPEND}
    /\ value = None
    /\ num_of_matches = 0
    /\ lines = <<>>
    /\ exc = "None"
    /\ other_extractor = NewExtractor
    /\ IdleGroup /\ IdleDelta /\ IdleFooter /\ IdleTable /\ IdleScan
    /\ IdleAsDict /\ IdleConsole /\ IdlePage

NextConvert == \E line \in ConverterLines : Len(lines) < MaxRaw /\ process_line(line)

SpecConvert == InitConvert /\ [][NextConvert]_vars

InitGroup ==
    /\ runs \in RunLists
    /\ input_runs = runs
    /\ group_by_key \in RunKeys \cup {NoGroupBy}
    /\ retval = None /\ grouped = None
    /\ gpc = "scanned"
    /\ IdleExtract /\ IdleDelta /\ IdleFooter /\ IdleTable /\ IdleScan
    /\ IdleAsDict /\ IdleConsole /\ IdlePage

NextGroup == group_multiple_runs \/ add_deltas_to_grouped_runs

SpecGroup == InitGroup /\ [][NextGroup]_vars

InitDelta ==
    /\ val1 \in DeltaValues
    /\ val2 \in DeltaValues
    /\ delta = None
    /\ dpc = "call"
    /\ IdleExtract /\ IdleGroup /\ IdleFooter /\ IdleTable /\ IdleScan
    /\ IdleAsDict /\ IdleConsole /\ IdlePage

NextDelta == call_get_delta_percent

SpecDelta == InitDelta /\ [][NextDelta]_vars

\* The records of the scanned files of an end-to-end pass: each holds a
\* duration under "time" and a byte count under "mem".
TimedRecords ==
    { PyDict([key \in {"time", "mem"} |-> IF key = "time" THEN tm ELSE mm]) :
        tm \in {PyTimedelta(0), PyTimedelta(10000000), PyTimedelta(12000000)},
        mm \in {PyInt(1000000), PyInt(1200000)} }
TimedRunLists == UNION { [1..n -> TimedRecords \cup {None}] : n \in 0..MaxRuns }

\* quick_process_multiple_runs after the scan: group, then add the deltas
InitEndToEnd ==
    /\ runs \in TimedRunLists
    /\ input_runs = runs
    /\ group_by_key = NoGroupBy
    /\ retval = None /\ grouped = None
    /\ gpc = "scanned"
    /\ IdleExtract /\ IdleDelta /\ IdleFooter /\ IdleTable /\ IdleScan
    /\ IdleAsDict /\ IdleConsole /\ IdlePage

SpecEndToEnd == InitEndToEnd /\ [][NextGroup]_vars

InitFooter ==
    /\ groups \in FooterGroupLists
    /\ with_delta \in BOOLEAN
    /\ sums = None /\ maxes = None /\ divided = None
    /\ input_groups = groups
    /\ fpc = "call"
    /\ IdleExtract /\ IdleGroup /\ IdleDelta /\ IdleTable /\ IdleScan
    /\ IdleAsDict /\ IdleConsole /\ IdlePage

NextFooter == footer_accumulate \/ footer_divide \/ footer_return

SpecFooter == InitFooter /\ [][NextFooter]_vars

\* a caller about to construct a formatter over grouped, annotated runs
InitTable ==
    /\ fcls \in FormatterClasses
    /\ table \in Tables
    /\ footer_with_delta \in BOOLEAN
    /\ footer = <<>> /\ footer_names = <<>> /\ header = <<>> /\ all_keys = {}
    /\ col_has_delta = <<>> /\ num_of_runs_in_group = <<>>
    /\ num_of_runs_in_cell = <<>> /\ column_descriptors = {}
    /\ preferred_order = <<>>
    /\ loc = Location /\ output = <<>> /\ tpc = "new"
    /\ indent = 0 /\ stand_out_class_cache = <<>> /\ returned = None
    /\ IdleExtract /\ IdleGroup /\ IdleDelta /\ IdleFooter /\ IdleScan
    /\ IdleAsDict /\ IdleConsole /\ IdlePage

\* the orders of preference and the columns a subclass or a caller may
\* configure: each order lists no column twice
PreferredOrders == UNION { Orders(S) : S \in SUBSET Elements(ColumnNames) }
ToggledOffColumns == SUBSET { <<col, "toggle_off">> : col \in Elements(ColumnNames) }

\* a formatter about to be constructed, of a class whose
\* get_default_preferred_order and get_default_column_descriptors give the
\* order of preference and the columns toggled off
InitHeader ==
    /\ fcls \in FormatterClasses
    /\ table \in Tables
    /\ footer_with_delta \in BOOLEAN
    /\ footer = <<>> /\ footer_names = <<>> /\ header = <<>> /\ all_keys = {}
    /\ col_has_delta = <<>> /\ num_of_runs_in_group = <<>>
    /\ num_of_runs_in_cell = <<>>
    /\ column_descriptors \in IF IsFiltered(fcls) THEN ToggledOffColumns ELSE {{}}
    /\ preferred_order \in IF IsFiltered(fcls) THEN PreferredOrders ELSE {<<>>}
    /\ loc = Location /\ output = <<>> /\ tpc = "new"
    /\ indent = 0 /\ stand_out_class_cache = <<>> /\ returned = None
    /\ IdleExtract /\ IdleGroup /\ IdleDelta /\ IdleFooter /\ IdleScan
    /\ IdleAsDict /\ IdleConsole /\ IdlePage

\* the construction and the first step of run(), which sets self.header
NextHeader == construct \/ begin_table

SpecHeader == InitHeader /\ [][NextHeader]_vars

NextTable ==
    \/ construct \/ set_column_attribute
    \/ begin_table \/ begin_header \/ begin_body \/ begin_footer
    \/ begin_group \/ begin_row \/ begin_col
    \/ begin_value \/ process_value \/ end_value
    \/ begin_delta \/ process_delta \/ end_delta
    \/ end_col \/ end_row \/ end_header \/ end_group
    \/ end_body \/ end_footer \/ end_table

SpecTable == InitTable /\ [][NextTable]_vars

\* scan_multiple_runs(files) of a subclass whose extractors dictionary
\* iterates in some order of its keys
InitScan ==
    /\ files \in FileLists
    /\ keys_order \in Orders(Elements(RegisteredKeys))
    /\ file_index = 1 /\ fh = 0 /\ k_index = 0
    /\ extractors = <<>> /\ scan_log = <<>> /\ handles = <<>> /\ run_list = <<>>
    /\ spc = "files"
    /\ IdleExtract /\ IdleGroup /\ IdleDelta /\ IdleFooter /\ IdleTable
    /\ IdleAsDict /\ IdleConsole /\ IdlePage

NextScan ==
    \/ scan_multiple_runs_open \/ scan_multiple_runs_missing
    \/ scan_process_line \/ scan_postprocess \/ scan_postprocess_scan
    \/ scan_multiple_runs_append \/ scan_multiple_runs_return

SpecScan == InitScan /\ [][NextScan]_vars

\* the runs of the body groups of an HTML sheet: two runs getting slower,
\* two runs getting faster, and a run list with an absent run
HTMLRunLists ==
    { << PyDict([key \in {"id", "time"} |-> IF key = "id" THEN PyStr(<<"A">>) ELSE PyInt(10)]),
         PyDict([key \in {"id", "time"} |-> IF key = "id" THEN PyStr(<<"A">>) ELSE PyInt(12)]) >>,
      << PyDict([key \in {"id", "time"} |-> IF key = "id" THEN PyStr(<<"B">>) ELSE PyInt(10)]),
         PyDict([key \in {"id", "time"} |-> IF key = "id" THEN PyStr(<<"B">>) ELSE PyInt(8)]) >>,
      << PyDict([key \in {"id", "time"} |-> IF key = "id" THEN PyStr(<<"C">>) ELSE PyInt(10)]),
         None >> }

HTMLGroups == { annotated_group(grouped_runs("id", as_dicts(rs))) : rs \in HTMLRunLists }
HTMLTables == UNION { [1..n -> HTMLGroups] : n \in 0..MaxTable }

\* the column descriptors a subclass of HTMLSheetFormatter may give
HTMLDescriptors == SUBSET {<<"time", "stand_out">>, <<"time", "bigger_is_better">>}

\* HTMLSheetFormatter.__init__ about to run
InitHTML ==
    /\ fcls = "HTMLSheetFormatter"
    /\ table \in HTMLTables
    /\ footer_with_delta \in BOOLEAN
    /\ footer = <<>> /\ footer_names = <<>> /\ header = <<>> /\ all_keys = {}
    /\ col_has_delta = <<>> /\ num_of_runs_in_group = <<>>
    /\ num_of_runs_in_cell = <<>>
    /\ column_descriptors \in HTMLDescriptors
    /\ preferred_order = <<>>
    /\ loc = Location /\ output = <<>> /\ tpc = "new"
    /\ indent = 0 /\ stand_out_class_cache = <<>> /\ returned = None
    /\ IdleExtract /\ IdleGroup /\ IdleDelta /\ IdleFooter /\ IdleScan
    /\ IdleAsDict /\ IdleConsole /\ IdlePage

SpecHTML == InitHTML /\ [][NextTable]_vars

\* as_dict() of a scanned instance of a subclass
InitAsDict ==
    /\ extractors \in ScannedExtractors
    /\ getters \in Getters
    /\ extracted_attributes \in AttributeLists
    /\ record = [keys |-> <<>>, retval |-> <<>>]
    /\ apc = "as_dict"
    /\ files = <<>> /\ keys_order = <<>> /\ file_index = 0 /\ fh = 0 /\ k_index = 0
    /\ scan_log = <<>> /\ handles = <<>> /\ run_list = <<>> /\ spc = "idle"
    /\ IdleExtract /\ IdleGroup /\ IdleDelta /\ IdleFooter /\ IdleTable /\ IdleConsole
    /\ IdlePage

NextAsDict == as_dict_getattr \/ as_dict_return

SpecAsDict == InitAsDict /\ [][NextAsDict]_vars

\* SimpleConsoleFormatter(runs_group) for a group of one list-valued key
InitConsole ==
    /\ runs_group \in ConsoleRunLists
    /\ formatted_output = <<>>
    /\ opc = "generate"
    /\ IdleExtract /\ IdleGroup /\ IdleDelta /\ IdleFooter /\ IdleTable /\ IdleScan
    /\ IdleAsDict /\ IdlePage

NextConsole == generate_key \/ generate_value \/ generate_return

SpecConsole == InitConsole /\ [][NextConsole]_vars

\* the labels and titles given to HTMLSheetFormatter.__init__
RunLabels == {<<"a">>, <<"<">>}
RunNameLists == UNION {[1..n -> RunLabels] : n \in 0..MaxNames}
Titles == {<<"T">>, <<"&">>}

\* HTMLSheetFormatter.__init__ done, run() called
InitPage ==
    /\ run_names \in RunNameLists
    /\ title \in Titles
    /\ runs_output = Unassigned
    /\ run_index = 0 /\ page = None /\ ppc = "run"
    /\ IdleExtract /\ IdleGroup /\ IdleDelta /\ IdleFooter /\ IdleTable /\ IdleScan
    /\ IdleAsDict /\ IdleConsole

NextPage == html_run \/ html_process_run \/ html_end_runs \/ html_substitute

SpecPage == InitPage /\ [][NextPage]_vars

Init ==
    \/ InitExtract \/ InitGroup \/ InitDelta \/ InitEndToEnd \/ InitFooter
    \/ InitTable \/ InitHeader \/ InitScan \/ InitConvert
    \/ InitAsDict \/ InitConsole \/ InitHTML \/ InitPage
Next ==
    \/ NextExtract \/ NextGroup \/ NextDelta \/ NextFooter \/ NextTable
    \/ NextScan \/ NextConvert \/ NextAsDict \/ NextConsole \/ NextPage
Spec == Init /\ [][Next]_vars

----------------------------------------------------------------------------
(* Properties of the extractors (SpecExtract) *)

\* the non-null results of extract_value_from_line over ls, in order
RECURSIVE Extractions(_, _)
Extractions(c, ls) ==
    IF ls = <<>> THEN <<>>
    ELSE LET x == extract_value_from_line(c, Head(ls))
         IN  (IF x # None THEN <<x>> ELSE <<>>) \o Extractions(c, Tail(ls))

\* a + b + c + ... for a non-empty sequence of matches
RECURSIVE SumOf(_)
SumOf(ms) ==
    IF Len(ms) = 1 THEN ms[1]
    ELSE PyAdd(SumOf(SubSeq(ms, 1, Len(ms) - 1)), ms[Len(ms)])

\* C1: after any sequence of process_line calls whose non-null extractions
\* are [a, b, c, ...], KEEP_FIRST holds a, KEEP_LAST holds the last match,
\* SUM holds a+b+c+... and APPEND holds the list [a, b, c, ...]; a single
\* match is stored as it is (as a one-element list for APPEND).
C1_PolicyFold ==
    LET m == Extractions(cls, lines)
    IN  m # <<>> =>
          /\ policy = POLICY_KEEP_FIRST => value = m[1]
          /\ policy = POLICY_KEEP_LAST => value = m[Len(m)]
          /\ policy = POLICY_SUM => value = SumOf(m)
          /\ policy = POLICY_APPEND => value = PyList(m)
          /\ Len(m) = 1 =>
               value = IF policy = POLICY_APPEND THEN PyList(<<m[1]>>) ELSE m[1]

C1_Witness ==
    /\ cls = "IntConverterExtractor"
    /\ policy = POLICY_SUM
    /\ Extractions(cls, lines) = <<PyInt(1), PyInt(12), PyInt(-1)>>
    /\ value = PyInt(12)

\* C2: num_of_matches is the number of lines processed so far whose
\* extraction was not None, and value is None exactly when it is 0.
C2_MatchCount ==
    /\ num_of_matches = Len(Extractions(cls, lines))
    /\ value = None <=> num_of_matches = 0

C2_Witness ==
    /\ cls = "IntConverterExtractor"
    /\ lines = << <<"=", "x">>, <<"=", "2">>, <<"x">> >>
    /\ num_of_matches = 1
    /\ value # None

----------------------------------------------------------------------------
(* Properties of grouping and delta annotation (SpecGroup) *)

\* the runs of the caller's list that define the group-by key
Holders ==
    { i \in 1..Len(input_runs) :
        input_runs[i] # None /\ group_by_key \in DOMAIN input_runs[i].v }

\* the values they hold for it
HeldValues == { input_runs[i].v[group_by_key] : i \in Holders }

Succeeded == gpc \in {"grouped", "with_deltas"}

\* C3: when all runs that define the group-by key hold the same value,
\* grouping succeeds and stores that value once, as a scalar; when two runs
\* hold distinct values, grouping fails and returns nothing.
C3_GroupKeyConsistency ==
    gpc # "scanned" =>
      /\ Cardinality(HeldValues) = 1 =>
           /\ Succeeded
           /\ \A x \in HeldValues : grouped.v[group_by_key] = x
      /\ Cardinality(HeldValues) > 1 => gpc = "AssertionError" /\ retval = None

C3_Witness ==
    /\ gpc = "AssertionError"
    /\ Len(input_runs) = 2
    /\ HeldValues = {PyStr(<<"A">>), PyStr(<<"B">>)}

\* C4: only the non-null values of the group-by key count: grouping
\* succeeds and stores the value when exactly one distinct non-null value
\* exists, and fails only if more than one distinct non-null value exists.
C4_OnlyNonNullCount ==
    gpc # "scanned" =>
      /\ Cardinality(HeldValues \ {None}) = 1 =>
           /\ Succeeded
           /\ \A x \in HeldValues \ {None} : grouped.v[group_by_key] = x
      /\ gpc = "AssertionError" => Cardinality(HeldValues \ {None}) > 1

\* the keys of the records that are not absent-run placeholders
UnionOfKeys ==
    UNION { DOMAIN input_runs[i].v :
              i \in { j \in 1..Len(input_runs) : input_runs[j] # None } }

\* C5: the grouped result has exactly the union of the keys of the
\* non-absent records; every key but the group-by key maps to a list of N
\* slots, slot i being record i's value or None when record i lacks the key
\* or is absent, in input order.
C5_GroupedShape ==
    Succeeded =>
      /\ DOMAIN grouped.v = UnionOfKeys
      /\ \A key \in DOMAIN grouped.v \ {group_by_key} :
           /\ grouped.v[key].t = "list"
           /\ Len(grouped.v[key].v) = Len(input_runs)
           /\ \A i \in 1..Len(input_runs) :
                grouped.v[key].v[i] =
                  IF input_runs[i] # None /\ key \in DOMAIN input_runs[i].v
                  THEN input_runs[i].v[key]
                  ELSE None

C5_Witness ==
    /\ gpc = "grouped"
    /\ group_by_key = "id"
    /\ Len(input_runs) = 3
    /\ input_runs[2] = None
    /\ DOMAIN grouped.v = {"id", "time"}
    /\ grouped.v["time"] = PyList(<<PyInt(10), None, None>>)

\* C36: group_multiple_runs rewrites the caller's runs list in place: after
\* it returns the list has the same length and order, every None has been
\* replaced by an empty mapping and every scanner instance by its as_dict()
\* record; entries that were mappings already are left as they were.
C36_RunsRewritten ==
    Succeeded =>
      /\ Len(runs) = Len(input_runs)
      /\ \A i \in 1..Len(runs) :
           /\ input_runs[i] = None => runs[i] = PyDict(<<>>)
           /\ input_runs[i].t = "StatsExtractorBase" =>
                /\ runs[i].t = "dict"
                /\ DOMAIN runs[i].v = DOMAIN input_runs[i].v
                /\ \A k \in DOMAIN runs[i].v : runs[i].v[k] = input_runs[i].v[k]
           /\ input_runs[i].t = "dict" => runs[i] = input_runs[i]

C36_Witness ==
    /\ gpc = "grouped"
    /\ Len(input_runs) = 3
    /\ input_runs[1] = None
    /\ input_runs[2].t = "StatsExtractorBase"
    /\ input_runs[3].t = "dict" /\ input_runs[3].v # <<>>
    /\ runs[1] = PyDict(<<>>)
    /\ runs[2] = PyDict([key \in {"time"} |-> PyInt(12)])
    /\ runs[3] = input_runs[3]

\* C6: add_deltas_to_grouped_runs keeps the key set and every list length;
\* in each list slot 0 stays unwrapped and slot i >= 1 becomes
\* withdelta(slot_i, delta(slot_0, slot_i)); scalars are untouched; a group
\* whose lists all have length 1 is returned unchanged.
C6_DeltaAnnotation ==
    gpc = "with_deltas" =>
      /\ DOMAIN retval.v = DOMAIN grouped.v
      /\ \A k \in DOMAIN grouped.v :
           IF grouped.v[k].t = "list"
           THEN /\ retval.v[k].t = "list"
                /\ Len(retval.v[k].v) = Len(grouped.v[k].v)
                /\ retval.v[k].v[1] = grouped.v[k].v[1]
                /\ \A i \in 2..Len(grouped.v[k].v) :
                     retval.v[k].v[i] =
                       withdelta(grouped.v[k].v[i],
                                 get_delta_percent(grouped.v[k].v[1], grouped.v[k].v[i]))
           ELSE retval.v[k] = grouped.v[k]
      /\ (\A k \in DOMAIN grouped.v :
            grouped.v[k].t = "list" => Len(grouped.v[k].v) = 1) => retval = grouped

C6_Witness ==
    /\ gpc = "with_deltas"
    /\ group_by_key = "id"
    /\ DOMAIN retval.v = {"id", "time"}
    /\ retval.v["id"] = PyStr(<<"A">>)
    /\ retval.v["time"] =
         PyList(<<PyInt(10), withdelta(PyInt(12), PyFloat(Frac(1, 5))),
                  withdelta(PyInt(10), PyFloat(FZero))>>)

----------------------------------------------------------------------------
(* Properties of get_delta_percent (SpecDelta) *)

NumericTypes == {"int", "timedelta", "float"}

\* the validity predicate: integers and durations must be >= 0, floats
\* must not be NaN, strings are always valid
InDomain(x) ==
    \/ x.t \in {"int", "timedelta"} /\ x.v >= 0
    \/ x.t = "float" /\ x.v.k # "nan"
    \/ x.t = "str"

NumericallyZero(x) ==
    \/ x.t \in {"int", "timedelta"} /\ x.v = 0
    \/ x.t = "float" /\ x.v = FZero

Positive(x) ==
    \/ x.t \in {"int", "timedelta"} /\ x.v > 0
    \/ x.t = "float" /\ x.v.k # "nan" /\ x.v.n > 0

\* C7: delta returns a float or None and never raises; it returns None
\* when both arguments are None and whenever their types differ.
C7_MismatchIsNull ==
    dpc = "return" =>
      /\ delta.t \in {"NoneType", "float"}
      /\ (val1 = None /\ val2 = None) \/ val1.t # val2.t => delta = None

C7_Witness ==
    /\ dpc = "return"
    /\ val1 = PyInt(5)
    /\ val2 = PyFloat(Frac(5, 1))
    /\ delta = None

\* C8: delta(x, x) = 0.0 for every valid x of a supported type.
C8_DeltaOfEqual ==
    dpc = "return" /\ val1 = val2 /\ InDomain(val1) => delta = PyFloat(FZero)

C8_Witness ==
    /\ dpc = "return"
    /\ val1 = PyInt(0)
    /\ val2 = PyInt(0)
    /\ delta = PyFloat(FZero)

\* C9 as stated: when v1 is numerically zero and v2 is a different value
\* of the same type, delta is +Infinity if v2 > 0 and -Infinity otherwise.
C9_ZeroReference_Original ==
    dpc = "return" /\ val1.t = val2.t /\ NumericallyZero(val1) /\ val1 # val2 =>
      delta = IF Positive(val2) THEN PyFloat(FInf) ELSE PyFloat(FNegInf)

\* C9 amended: when v1 is numerically zero and v2 is a different value of
\* the same type that is valid (a non-negative integer or duration, a float
\* that is not NaN), delta is +Infinity if v2 > 0 and -Infinity otherwise.
C9_ZeroReference ==
    dpc = "return" /\ val1.t = val2.t /\ NumericallyZero(val1) /\ val1 # val2
      /\ InDomain(val2) =>
      delta = IF Positive(val2) THEN PyFloat(FInf) ELSE PyFloat(FNegInf)

C9_Witness ==
    /\ dpc = "return"
    /\ val1 = PyFloat(FZero)
    /\ val2 = PyFloat(Frac(-5, 1))
    /\ delta = PyFloat(FNegInf)

\* C10: when v1 and v2 have the same type and either is a negative
\* integer, a negative duration or a NaN float, delta is NaN (not None),
\* also when the values are equal or v1 is zero.
C10_InvalidIsNaN ==
    dpc = "return" /\ val1.t = val2.t /\ val1.t \in NumericTypes
      /\ (~InDomain(val1) \/ ~InDomain(val2)) =>
      delta = PyFloat(FNaN)

C10_Witness ==
    /\ dpc = "return"
    /\ val1 = PyInt(-5)
    /\ val2 = PyInt(-5)
    /\ delta = PyFloat(FNaN)

\* C11: for any two strings s1 and s2, equal or different, delta(s1, s2)
\* is 0.0.
C11_StringDeltaIsZero ==
    dpc = "return" /\ val1.t = "str" /\ val2.t = "str" => delta = PyFloat(FZero)

----------------------------------------------------------------------------
(* Properties of the end-to-end pass (SpecEndToEnd) *)

\* numeric(): a value of a numeric type as the fraction n / d, durations
\* in seconds
Numeric(x) ==
    CASE x.t = "int" -> [n |-> x.v, d |-> 1]
      [] x.t = "timedelta" -> [n |-> Frac(x.v, 1000000).n, d |-> Frac(x.v, 1000000).d]
      [] x.t = "float" -> [n |-> x.v.n, d |-> x.v.d]

\* (numeric(v2) - numeric(v1)) / numeric(v1)
RelativeChange(v1, v2) ==
    LET a == Numeric(v1)
        b == Numeric(v2)
    IN  PyFloat(Frac(b.n * a.d - a.n * b.d, b.d * a.n))

ExampleRuns ==
    << PyDict([key \in {"time", "mem"} |->
                 IF key = "time" THEN PyTimedelta(10000000) ELSE PyInt(1000000)]),
       PyDict([key \in {"time", "mem"} |->
                 IF key = "time" THEN PyTimedelta(12000000) ELSE PyInt(1200000)]) >>

ExampleResult ==
    PyDict([key \in {"time", "mem"} |->
              IF key = "time"
              THEN PyList(<<PyTimedelta(10000000),
                            withdelta(PyTimedelta(12000000), PyFloat(Frac(2, 10)))>>)
              ELSE PyList(<<PyInt(1000000),
                            withdelta(PyInt(1200000), PyFloat(Frac(2, 10)))>>)])

\* C12: records {time: 10s, mem: 1000000} and {time: 12s, mem: 1200000},
\* grouped with no group-by key and delta-annotated, give
\* time = [10s, withdelta(12s, 0.2)] and mem = [1000000, withdelta(1200000, 0.2)];
\* in general a slot holding a valid value v2 of the type of the valid,
\* non-zero reference v1, v2 # v1, carries (numeric(v2) - numeric(v1)) / numeric(v1).
C12_EndToEndDelta ==
    gpc = "with_deltas" =>
      /\ input_runs = ExampleRuns => retval = ExampleResult
      /\ \A key \in DOMAIN retval.v : \A i \in 2..Len(retval.v[key].v) :
           LET v1 == grouped.v[key].v[1]
               v2 == grouped.v[key].v[i]
           IN  v1.t = v2.t /\ v1.t \in NumericTypes /\ InDomain(v1) /\ InDomain(v2)
                 /\ v1 # v2 /\ ~NumericallyZero(v1) =>
                 retval.v[key].v[i] = withdelta(v2, RelativeChange(v1, v2))

C12_Witness ==
    /\ gpc = "with_deltas"
    /\ input_runs = ExampleRuns
    /\ retval = ExampleResult

----------------------------------------------------------------------------
(* Properties of the footer (SpecFooter) *)

\* the groups holding the key "x"
XHolders == { g \in 1..Len(groups) : "x" \in DOMAIN groups[g].v }

\* the entry of group g under "x"
XEntry(g) == groups[g].v["x"]

AllHoldX == groups # <<>> /\ XHolders = 1..Len(groups)

\* the number of positions all list entries under "x" share
SharedLen == CHOOSE n \in {Len(XEntry(g).v) : g \in XHolders} :
                 \A g \in XHolders : n <= Len(XEntry(g).v)

\* sum and maximum of a non-empty sequence of integers; quotient toward zero
RECURSIVE IntSum(_)
IntSum(ns) == IF ns = <<>> THEN 0 ELSE Head(ns) + IntSum(Tail(ns))
IntMax(ns) == CHOOSE m \in {ns[i] : i \in 1..Len(ns)} : \A i \in 1..Len(ns) : ns[i] <= m
Quotient(a, n) == IF a >= 0 THEN a \div n ELSE -((-a) \div n)

XScalarGroups(a, b, c) ==
    << PyDict([key \in {"x"} |-> PyInt(a)]), PyDict([key \in {"x"} |-> PyInt(b)]),
       PyDict([key \in {"x"} |-> PyInt(c)]) >>

XListGroup(ns) == PyDict([key \in {"x"} |-> PyList([i \in 1..Len(ns) |-> PyInt(ns[i])])])

\* C13: the footer of {x: 2}, {x: 4}, {x: 6} has avg = {x: 4} and
\* max = {x: 6}; for an integer key held by every one of n groups, max is
\* the maximum of the values and avg is their sum divided by n (scalar
\* entries, and each position of list entries).
C13_FooterAvgMax ==
    fpc \in {"divided", "returned"} =>
      /\ groups = XScalarGroups(2, 4, 6) =>
           sums = PyDict([key \in {"x"} |-> PyInt(4)])
             /\ maxes = PyDict([key \in {"x"} |-> PyInt(6)])
      /\ AllHoldX /\ (\A g \in XHolders : XEntry(g).t = "int") =>
           LET vals == [g \in 1..Len(groups) |-> XEntry(g).v]
           IN  /\ divided = None => maxes.v["x"] = PyInt(IntMax(vals))
               /\ divided = None => sums.v["x"] = PyInt(Quotient(IntSum(vals), Len(groups)))
               /\ divided # None => divided.max.v["x"] = PyInt(IntMax(vals))
               /\ divided # None =>
                    divided.avg.v["x"] = PyInt(Quotient(IntSum(vals), Len(groups)))
      /\ fpc = "divided" /\ AllHoldX /\ (\A g \in XHolders : XEntry(g).t = "list") =>
           \A i \in 1..SharedLen :
             (\A g \in XHolders : XEntry(g).v[i].t = "int") =>
               LET vals == [g \in 1..Len(groups) |-> XEntry(g).v[i].v]
               IN  /\ maxes.v["x"].v[i] = PyInt(IntMax(vals))
                   /\ sums.v["x"].v[i] = PyInt(Quotient(IntSum(vals), Len(groups)))

C13_Witness ==
    /\ fpc = "returned"
    /\ with_delta
    /\ groups = XScalarGroups(2, 4, 6)
    /\ sums = PyDict([key \in {"x"} |-> PyInt(4)])
    /\ maxes = PyDict([key \in {"x"} |-> PyInt(6)])

\* C14: lists of different lengths are combined position by position over
\* the shorter length, whichever operand is longer: summing {x: [1,2,3]}
\* and {x: [10,20]} gives {x: [11, 22]} in either order, and max likewise.
C14_ShorterLength ==
    fpc = "summed" =>
      /\ groups \in { <<XListGroup(<<1, 2, 3>>), XListGroup(<<10, 20>>)>>,
                      <<XListGroup(<<10, 20>>), XListGroup(<<1, 2, 3>>)>> } =>
           /\ sums = XListGroup(<<11, 22>>)
           /\ maxes = XListGroup(<<10, 20>>)
      /\ AllHoldX /\ (\A g \in XHolders : XEntry(g).t = "list") =>
           /\ sums.v["x"].t = "list" /\ Len(sums.v["x"].v) = SharedLen
           /\ maxes.v["x"].t = "list" /\ Len(maxes.v["x"].v) = SharedLen
           /\ \A i \in 1..SharedLen :
                (\A g \in XHolders : XEntry(g).v[i].t = "int") =>
                  LET vals == [g \in 1..Len(groups) |-> XEntry(g).v[i].v]
                  IN  /\ sums.v["x"].v[i] = PyInt(IntSum(vals))
                      /\ maxes.v["x"].v[i] = PyInt(IntMax(vals))

C14_Witness ==
    /\ fpc = "summed"
    /\ groups = <<XListGroup(<<10, 20>>), XListGroup(<<1, 2, 3>>)>>
    /\ sums = XListGroup(<<11, 22>>)
    /\ maxes = XListGroup(<<10, 20>>)

\* C15 as stated: with with_delta, every delta attached to an avg entry is
\* the delta between that avg value and the corresponding max value.
C15_AvgAgainstMax_Original ==
    fpc = "returned" /\ with_delta =>
      \A k \in DOMAIN sums.v :
        sums.v[k].t = "list" =>
          \A i \in 1..Len(sums.v[k].v) :
            sums.v[k].v[i].t = "withdelta" =>
              LET a == divided.avg.v[k].v[i]
                  m == val_of(divided.max.v[k].v[i])
              IN  sums.v[k].v[i].v.delta
                    \in {get_delta_percent(m, a), get_delta_percent(a, m)}

\* a list as add_deltas_to_grouped_runs leaves it: slot 0 as it was, slot
\* i >= 1 wrapped with its delta against slot 0 of the same list
SelfAnnotated(after, before) ==
    /\ after.t = "list" /\ Len(after.v) = Len(before.v)
    /\ after.v[1] = before.v[1]
    /\ \A i \in 2..Len(before.v) :
         after.v[i] = withdelta(before.v[i], get_delta_percent(before.v[1], before.v[i]))

\* C15 amended: with with_delta, avg and max are each annotated as a group
\* of their own: in every list-valued entry of avg, and of max, slot 0 is
\* the reference and slot i >= 1 carries delta(slot 0, slot i) of that same
\* list; entries that are not lists carry no delta. Without with_delta
\* nothing is annotated.
C15_FooterDeltas ==
    fpc = "returned" =>
      IF with_delta
      THEN /\ DOMAIN sums.v = DOMAIN divided.avg.v
           /\ DOMAIN maxes.v = DOMAIN divided.max.v
           /\ \A k \in DOMAIN sums.v :
                IF divided.avg.v[k].t = "list"
                THEN SelfAnnotated(sums.v[k], divided.avg.v[k])
                ELSE sums.v[k] = divided.avg.v[k]
           /\ \A k \in DOMAIN maxes.v :
                IF divided.max.v[k].t = "list"
                THEN SelfAnnotated(maxes.v[k], divided.max.v[k])
                ELSE maxes.v[k] = divided.max.v[k]
      ELSE sums = divided.avg /\ maxes = divided.max

C15_Witness ==
    /\ fpc = "returned"
    /\ with_delta
    /\ groups = <<XListGroup(<<1, 2, 3>>), XListGroup(<<10, 20>>)>>
    /\ sums.v["x"] = PyList(<<PyInt(5), withdelta(PyInt(11), PyFloat(Frac(6, 5)))>>)
    /\ maxes.v["x"] = PyList(<<PyInt(10), withdelta(PyInt(20), PyFloat(Frac(1, 1)))>>)

\* the operands met at one position make the combination null: one of them
\* is None or a string, or two of them differ in type
Incompatible(operands) ==
    \/ \E a \in operands : a.t \in {"NoneType", "str"}
    \/ \E a, b \in operands : a.t # b.t

\* C16: when sum and max combine the entries of two or more groups, a
\* position where an operand is None, a string, or of another type than
\* the other operand is None, and stays None whatever further groups are
\* combined, in the sums, the maxes and the averages.
C16_NullPositions ==
    fpc \in {"summed", "divided"} /\ Cardinality(XHolders) >= 2 =>
      /\ Incompatible({val_of(XEntry(g)) : g \in XHolders}) =>
           sums.v["x"] = None /\ maxes.v["x"] = None
      /\ (\A g \in XHolders : XEntry(g).t = "list") =>
           \A i \in 1..SharedLen :
             Incompatible({val_of(XEntry(g).v[i]) : g \in XHolders}) =>
               sums.v["x"].v[i] = None /\ maxes.v["x"].v[i] = None

C16_Witness ==
    /\ fpc = "divided"
    /\ groups = << XListGroup(<<10, 20>>),
                   PyDict([key \in {"x"} |-> PyList(<<PyInt(10), None>>)]),
                   XListGroup(<<1, 2, 3>>) >>
    /\ sums.v["x"] = PyList(<<PyInt(7), None>>)
    /\ maxes.v["x"] = PyList(<<PyInt(10), None>>)

\* the sum of the integers the groups hold under "x"
RECURSIVE HeldSum(_)
HeldSum(gs) ==
    IF gs = <<>> THEN 0
    ELSE (IF "x" \in DOMAIN Head(gs).v THEN Head(gs).v["x"].v ELSE 0) + HeldSum(Tail(gs))

\* C31: the footer average divides by the total number of groups even for
\* a key held by fewer groups: for an integer leaf, avg is the sum over the
\* groups holding the key divided by len(groups), truncated toward zero
\* (a sum of -7 over 2 groups gives -3).
C31_AvgDivisor ==
    fpc = "divided" =>
      /\ (XHolders # {} /\ \A g \in XHolders : XEntry(g).t = "int") =>
           sums.v["x"] = PyInt(Quotient(HeldSum(groups), Len(groups)))
      /\ groups = <<PyDict([key \in {"x"} |-> PyInt(-7)]), PyDict(<<>>)>> =>
           sums.v["x"] = PyInt(-3)

C31_Witness ==
    /\ fpc = "divided"
    /\ Len(groups) = 3
    /\ Cardinality(XHolders) = 2
    /\ \A g \in XHolders : XEntry(g).t = "int"
    /\ HeldSum(groups) = -5
    /\ sums.v["x"] = PyInt(-1)

\* C34: compute_footer_from_grouped_runs, with or without deltas, leaves
\* its input groups unchanged: every group has the same keys, list lengths
\* and elements (withdelta wrappers and deltas included) as before, also
\* for a key held by a single group, whose list is at first shared with the
\* sum and max accumulators.
C34_InputUnchanged == groups = input_groups

C34_Witness ==
    /\ fpc = "returned"
    /\ with_delta
    /\ input_groups = <<XListGroup(<<10, 20>>), PyDict(<<>>)>>
    /\ divided.max = XListGroup(<<10, 20>>)
    /\ maxes.v["x"] = PyList(<<PyInt(10), withdelta(PyInt(20), PyFloat(Frac(1, 1)))>>)
    /\ groups = input_groups

\* every leaf of x is null or an unwrapped duration, float or integer
RECURSIVE NumericLeaves(_)
NumericLeaves(x) ==
    IF x.t \in {"list", "tuple"} THEN \A i \in 1..Len(x.v) : NumericLeaves(x.v[i])
    ELSE x.t \in {"NoneType", "timedelta", "float", "int"}

\* C35: every leaf value of the footer's max and avg groups, before the
\* optional delta annotation, is null or an unwrapped duration, float or
\* integer, never a string and never a withdelta, also for a key held by
\* exactly one group and for body groups that are already delta-annotated.
C35_FooterLeaves ==
    fpc = "divided" =>
      /\ \A k \in DOMAIN sums.v : NumericLeaves(sums.v[k])
      /\ \A k \in DOMAIN maxes.v : NumericLeaves(maxes.v[k])

----------------------------------------------------------------------------
(* Properties of the table walk (SpecTable) *)

Raised == {"KeyError", "IndexError", "TypeError"}
WalkOver == tpc = "returned" \/ tpc \in Raised

ColumnHooks ==
    <<"begin_col", "begin_value", "process_value", "end_value",
      "begin_delta", "process_delta", "end_delta", "end_col">>

RECURSIVE Repeated(_, _)
Repeated(s, n) == IF n <= 0 THEN <<>> ELSE s \o Repeated(s, n - 1)

\* the run-slots of a group: the length of its longest list, none without a list
RunSlots(g) ==
    LET lens == {Len(g.v[k].v) : k \in {c \in DOMAIN g.v : g.v[c].t = "list"}} \cup {0}
    IN  CHOOSE m \in lens : \A n \in lens : n <= m

RowHooks == <<"begin_row">> \o Repeated(ColumnHooks, Len(header)) \o <<"end_row">>

RECURSIVE GroupsHooks(_)
GroupsHooks(gs) ==
    IF gs = <<>> THEN <<>>
    ELSE <<"begin_group">> \o Repeated(RowHooks, RunSlots(Head(gs))) \o <<"end_group">>
         \o GroupsHooks(Tail(gs))

ExpectedHooks ==
    <<"begin_table", "begin_header">> \o RowHooks \o <<"end_header", "begin_body">>
    \o GroupsHooks(table) \o <<"end_body", "begin_footer">>
    \o GroupsHooks(footer) \o <<"end_footer", "end_table">>

\* C17: run() calls the hooks in the fixed nested order (table, header row,
\* body groups, footer groups, their rows and columns), so that once the walk
\* is over every begin hook has been matched by its end hook and end_table
\* is the last hook called.
C17_HookOrder ==
    /\ Len(output) <= Len(ExpectedHooks)
    /\ output = SubSeq(ExpectedHooks, 1, Len(output))
    /\ WalkOver => output = ExpectedHooks

AtColumnHook == \E i \in DOMAIN ColumnHooks : tpc = ColumnHooks[i]

\* the group the walk is in, in the body or in the footer
CurrentGroup == section_groups[loc.n_group + 1].v

\* C18: at every column hook of the body and of the footer,
\* num_of_runs_in_cell is the length of the current group's own list for the
\* column, or -1 for a scalar or a missing column, and value is the list's
\* element at the current run index.
C18_RunsInCell ==
    (AtColumnHook /\ InGroups) =>
        IF loc.col_name \notin DOMAIN CurrentGroup
        THEN loc.num_of_runs_in_cell = -1
        ELSE IF CurrentGroup[loc.col_name].t = "list"
        THEN /\ loc.num_of_runs_in_cell = Len(CurrentGroup[loc.col_name].v)
             /\ loc.n_run < Len(CurrentGroup[loc.col_name].v)
             /\ loc.value = val_of(CurrentGroup[loc.col_name].v[loc.n_run + 1])
        ELSE loc.num_of_runs_in_cell = -1

\* C19: the walk never raises on missing or null cell data: every run() over
\* grouped, delta-annotated body groups returns, and a column missing from a
\* group is presented with a null value.
C19_NeverRaises ==
    /\ tpc \notin Raised
    /\ (AtColumnHook /\ InGroups /\ loc.col_name \notin DOMAIN CurrentGroup)
          => loc.value = None

\* some cell of the column, in a body or a footer group, is a ValueBox with
\* a non-null delta
HoldsNonNullDelta(col_name) ==
    \E i \in 1..Len(table \o footer) :
       LET g == (table \o footer)[i].v
       IN  /\ col_name \in DOMAIN g
           /\ g[col_name].t = "list"
           /\ \E j \in DOMAIN g[col_name].v :
                 /\ g[col_name].v[j].t = "withdelta"
                 /\ g[col_name].v[j].v.delta # None

\* C20: col_has_delta of a column is true exactly when some cell of the
\* column holds a ValueBox with a non-null delta, and false whenever the
\* column's descriptor sets toggle_delta_off.
C20_ColHasDelta ==
    AtColumnHook =>
        loc.col_has_delta =
            PyBool(IF fcls = "TableFilteredBase"
                      /\ <<loc.col_name, "toggle_delta_off">> \in column_descriptors
                   THEN FALSE
                   ELSE HoldsNonNullDelta(loc.col_name))

----------------------------------------------------------------------------
(* Properties of the header (SpecHeader) *)

\* the position of a column name in alphabetical order
ColumnRank(col) == CHOOSE i \in DOMAIN ColumnNames : ColumnNames[i] = col

KeysOfGroups == UNION { DOMAIN (table \o footer)[i].v : i \in 1..Len(table \o footer) }
Excluded == { col \in KeysOfGroups : <<col, "toggle_off">> \in column_descriptors }
Occurrences(col) == { i \in DOMAIN header : header[i] = col }

\* the preferred columns that are present and not toggled off, in order
PreferredPresent ==
    SelectSeq(preferred_order, LAMBDA col : col \in KeysOfGroups \ Excluded)

\* C22: the header is by default the sorted union of the keys of the body
\* and footer groups; with TableFilteredBase it starts with the preferred
\* columns that are present and not toggled off, in preferred order, the
\* other non-excluded keys follow, each non-excluded key appears exactly
\* once and no excluded key appears.
C22_HeaderColumns ==
    tpc = "begin_table" =>
        IF fcls = "TableFormatterBase"
        THEN /\ Elements(header) = KeysOfGroups
             /\ \A i, j \in DOMAIN header :
                   i < j => ColumnRank(header[i]) < ColumnRank(header[j])
        ELSE /\ Len(header) >= Len(PreferredPresent)
             /\ SubSeq(header, 1, Len(PreferredPresent)) = PreferredPresent
             /\ \A col \in KeysOfGroups \ Excluded : Cardinality(Occurrences(col)) = 1
             /\ \A col \in Excluded : Occurrences(col) = {}
             /\ Elements(header) \subseteq KeysOfGroups

C22_Witness ==
    /\ tpc = "begin_table"
    /\ fcls = "TableFilteredBase"
    /\ preferred_order = <<"time", "mem", "id">>
    /\ column_descriptors = {<<"time", "toggle_off">>}
    /\ header = <<"mem", "id">>

----------------------------------------------------------------------------
(* Properties of the scan (SpecScan) *)

\* the calls of a finished scan of a file of n lines: every line, in file
\* order, fed to every extractor; then postprocess on the extractors in the
\* given order; then postprocess_scan
ScanLogOf(log, n, keys) ==
    LET m == Len(keys)
    IN  /\ Len(log) = n * m + m + 1
        /\ \A i \in 1..n :
              /\ \A j \in 1..m : /\ log[(i - 1) * m + j].call = "process_line"
                                 /\ log[(i - 1) * m + j].line_no = i
              /\ { log[(i - 1) * m + j].key : j \in 1..m } = Elements(keys)
        /\ \A j \in 1..m : log[n * m + j] = Called("postprocess", keys[j], 0)
        /\ log[n * m + m + 1] = Called("postprocess_scan", "", 0)

NoLineAfterPostprocess(log) ==
    \A i, j \in DOMAIN log :
       (i < j /\ log[i].call # "process_line") => log[j].call # "process_line"

\* C23 as claimed: after the last line postprocess() is called once on every
\* extractor in registration order, then postprocess_scan() once, and no
\* extractor receives a line after a postprocess call.
C23_ScanOrder_Original ==
    /\ NoLineAfterPostprocess(scan_log)
    /\ spc = "scanned" =>
          ScanLogOf(scan_log, Len(files[file_index].v), RegisteredKeys)

\* C23: every line is fed, in file order, to every extractor; after the last
\* line postprocess() is called once on every extractor, in the iteration
\* order of the extractors dictionary (the order in which each line was fed
\* to them), then postprocess_scan() once; no extractor receives a line
\* after a postprocess call.
C23_ScanOrder ==
    /\ NoLineAfterPostprocess(scan_log)
    /\ spc = "scanned" =>
          /\ ScanLogOf(scan_log, Len(files[file_index].v), keys_order)
          /\ \A i \in DOMAIN scan_log :
                scan_log[i].call = "process_line" =>
                   scan_log[i].key = keys_order[((i - 1) % Len(keys_order)) + 1]

C23_Witness ==
    /\ spc = "scanned"
    /\ Len(files[file_index].v) = 3
    /\ keys_order # RegisteredKeys

\* the lines of a file that an extractor of the class matches
Matches(c, ls) == { i \in DOMAIN ls : extract_value_from_line(c, ls[i]) # None }

\* a file has been opened and closed again, fully scanned in between
FullyScanned(i) ==
    /\ run_list[i].t = "StatsExtractorBase"
    /\ ScanLogOf(run_list[i].v.scan_log, Len(files[i].v), keys_order)
    /\ \A k \in Elements(RegisteredKeys) :
          run_list[i].v.extractors[k].num_of_matches
             = Cardinality(Matches(run_list[i].v.extractors[k].cls, files[i].v))

\* C24: scan_multiple_runs returns one entry per path, in input order: None
\* for a missing file, the fully scanned extractor for a present one; and a
\* file is opened only when every file opened before it has been closed.
C24_RunList ==
    /\ \A j \in DOMAIN handles :
          /\ handles[j].op = (IF j % 2 = 1 THEN "open" ELSE "close")
          /\ (j % 2 = 0) => handles[j].file = handles[j - 1].file
          /\ (j > 1 /\ j % 2 = 1) => handles[j].file > handles[j - 1].file
    /\ \A i \in DOMAIN run_list :
          IF files[i].t = "missing" THEN run_list[i] = None ELSE FullyScanned(i)
    /\ Len(run_list) = file_index - 1
    /\ spc = "returned" => Len(run_list) = Len(files)

C24_Witness ==
    /\ spc = "returned"
    /\ Len(files) = 2
    /\ files[1].t = "missing"
    /\ Len(files[2].v) = 3
    /\ run_list[1] = None
    /\ run_list[2].t = "StatsExtractorBase"

----------------------------------------------------------------------------
(* Properties of the value-converting extractors (SpecConvert) *)

LastLine == lines[Len(lines)]

\* the raw value the wrapped extractor matched in the last line
LastRaw == Tail(LastLine)

LastMatched == lines # <<>> /\ Len(LastLine) >= 2 /\ LastLine[1] = "="

\* the value the last line contributed
LastValue == IF policy = POLICY_APPEND THEN value.v[Len(value.v)] ELSE value

\* no line so far gave a converted value
NothingConverted ==
    \A i \in DOMAIN lines :
       LET x == extract_value_from_line(cls, lines[i])
       IN  x = None \/ IsException(x)

\* C25: a raw match that cannot be parsed never aborts the scan: no error
\* leaves process_line of a value-converting extractor, and lines that do not
\* convert leave value and num_of_matches as they were.
C25_ParseFailures ==
    /\ exc = "None"
    /\ NothingConverted => value = None /\ num_of_matches = 0

\* the fields of a duration, separated by colons
RECURSIVE Fields(_)
Fields(s) ==
    IF \A i \in DOMAIN s : s[i] # ":" THEN <<s>>
    ELSE LET i == CHOOSE i \in DOMAIN s : s[i] = ":" /\ \A j \in 1..(i - 1) : s[j] # ":"
         IN  <<SubSeq(s, 1, i - 1)>> \o Fields(SubSeq(s, i + 1, Len(s)))

\* the numeric fields of the raw values, in thousandths
NumericFields ==
    [f \in { <<"1">>, <<"2">>, <<"3">>, <<"4">>, <<"5">>, <<"1", "2">>, <<"3", "0">>,
             <<"0", ".", "1">>, <<"0", ".", "0", "1">>, <<"1", ".", "5">> } |->
       CASE f = <<"1">> -> 1000 [] f = <<"2">> -> 2000 [] f = <<"3">> -> 3000
         [] f = <<"4">> -> 4000 [] f = <<"5">> -> 5000 [] f = <<"1", "2">> -> 12000
         [] f = <<"3", "0">> -> 30000 [] f = <<"0", ".", "1">> -> 100
         [] f = <<"0", ".", "0", "1">> -> 10 [] f = <<"1", ".", "5">> -> 1500]

\* days*86400 + hours*3600 + minutes*60 + seconds of the fields read
\* right-to-left, in microseconds
RECURSIVE DurationOf(_, _)
DurationOf(fs, weights) ==
    IF fs = <<>> THEN 0
    ELSE NumericFields[fs[Len(fs)]] * Head(weights) * 1000
           + DurationOf(SubSeq(fs, 1, Len(fs) - 1), Tail(weights))

\* C26: a raw value of 1 to 4 colon-separated numeric fields yields the
\* duration days*86400 + hours*3600 + minutes*60 + seconds, the fields read
\* right-to-left; a raw value with more than 4 fields, or with a non-numeric
\* field, yields null (nothing is stored, nothing is raised).
C26_Duration ==
    (cls = "TimeConverterExtractor" /\ LastMatched) =>
       LET fs == Fields(LastRaw)
       IN  IF Len(fs) <= 4 /\ \A i \in DOMAIN fs : fs[i] \in DOMAIN NumericFields
           THEN /\ exc = "None"
                /\ LastValue = PyTimedelta(DurationOf(fs, <<1, 60, 3600, 86400>>))
           ELSE /\ exc = "None"
                /\ extract_value_from_line(cls, LastLine) = None

\* the byte counts of the raw values that hold a number and a suffix
ByteCounts ==
    [r \in { <<"1", "2">>, <<"1", "2", "b">>, <<"1", "2", "k">>, <<"1", "2", "K", "B">>,
             <<"1", "2", "K", "b">>, <<"1", ".", "5", "M">>, <<"2", "g">>,
             <<"1", ".", "5">> } |->
       CASE r = <<"1", "2">> -> 12 [] r = <<"1", "2", "b">> -> 12
         [] r = <<"1", "2", "k">> -> 12000 [] r = <<"1", "2", "K", "B">> -> 12000
         [] r = <<"1", "2", "K", "b">> -> 12000 [] r = <<"1", ".", "5", "M">> -> 1500000
         [] r = <<"2", "g">> -> 2000000000 [] r = <<"1", ".", "5">> -> 1]

\* C27: byte-count conversion is case-insensitive, strips one optional
\* trailing "b", scales by 1000, 1,000,000 or 1,000,000,000 for a K, M or G
\* suffix and truncates the product to an integer: "12", "12b", "12k",
\* "12KB", "12Kb" give 12, 12, 12000, 12000, 12000 and "1.5M" gives 1500000.
C27_ByteCount ==
    (cls = "MemoryConverterExtractor" /\ LastMatched /\ exc = "None") =>
       /\ LastRaw \in DOMAIN ByteCounts
       /\ LastValue = PyInt(ByteCounts[LastRaw])
       /\ memory_convert_raw_value(PyStr(lower(LastRaw))) = LastValue

C27_Witness ==
    /\ cls = "MemoryConverterExtractor" /\ LastMatched /\ exc = "None"
    /\ LastRaw = <<"1", ".", "5", "M">>
    /\ Len(lines) = 2
    /\ lines[1] = <<"=", "1", "2", "K", "b">>
    /\ value = PyInt(1500000)

\* C33: a value-converting extractor never changes the state of the
\* extractor it wraps: after any sequence of process_line calls on the
\* converter, the value of the wrapped extractor is still null and its
\* num_of_matches still 0.
C33_WrappedUnchanged ==
    cls \in ConverterClasses =>
      other_extractor.value = None /\ other_extractor.num_of_matches = 0

C33_Witness ==
    /\ cls = "IntConverterExtractor"
    /\ Len(lines) = 2
    /\ num_of_matches = 2
    /\ value # None
    /\ other_extractor = NewExtractor

----------------------------------------------------------------------------
(* Properties of as_dict (SpecAsDict) *)

Declared == Elements(extracted_attributes)

HasGetter(k) == k \in DOMAIN getters /\ getters[k].callable

\* C28: as_dict returns exactly the declared keys; a key backed by an
\* extractor holds that extractor's value, whatever getter there is; a key
\* not backed by an extractor holds the result of its get_<key> getter; with
\* a declared key that has neither, as_dict fails with AttributeError and
\* returns nothing.
C28_AsDict ==
    /\ apc = "returned" =>
          /\ DOMAIN record.retval = Declared
          /\ \A k \in Declared :
                IF k \in DOMAIN extractors
                THEN record.retval[k] = extractors[k].value
                ELSE HasGetter(k) /\ record.retval[k] = getters[k].result
    /\ (\E k \in Declared : k \notin DOMAIN extractors /\ ~HasGetter(k)) =>
          apc \in {"as_dict", "AttributeError"}
    /\ apc = "AttributeError" =>
          \E k \in Declared : k \notin DOMAIN extractors /\ ~HasGetter(k)

C28_Witness ==
    /\ apc = "returned"
    /\ extracted_attributes = <<"count", "total">>
    /\ "count" \in DOMAIN extractors /\ HasGetter("count")
    /\ "total" \notin DOMAIN extractors
    /\ record.retval = [k \in {"count", "total"} |->
                          IF k = "count" THEN PyStr(<<"1">>) ELSE PyInt(7)]

----------------------------------------------------------------------------
(* Properties of the console output (SpecConsole) *)

\* the runs after the reference run whose cells have been generated
GeneratedRuns == 2..(Len(formatted_output) \div 2)

DeltaCell(i) == formatted_output[2 * i]

DeltaOf(i) == IF runs_group[i].t = "withdelta" THEN runs_group[i].v.delta ELSE None

EndsWith(shown, text) ==
    /\ Len(shown) >= Len(text)
    /\ SubSeq(shown, Len(shown) - Len(text) + 1, Len(shown)) = text

\* the colour code that opens the text of a shown
Colour(shown) ==
    IF \E i \in DOMAIN shown : <<shown[i]>> \in {FAIL, WARNING, OKGREEN}
    THEN <<shown[CHOOSE i \in DOMAIN shown : <<shown[i]>> \in {FAIL, WARNING, OKGREEN}]>>
    ELSE <<>>

\* C29: the console renders the delta of a non-reference run as "=" when it
\* is exactly 0, green when it is below 0, yellow when it is above 0 and at
\* most 5%, red when it is above 5%, and "n/a" when the shown has no delta.
C29_ConsoleDelta ==
    \A i \in GeneratedRuns :
       LET d == DeltaOf(i)
           shown == DeltaCell(i)
       IN  IF d = None THEN EndsWith(shown, <<"n", "/", "a">>)
           ELSE IF d.v.k = "nan" THEN TRUE
           ELSE IF FEq(d.v, FZero) THEN EndsWith(shown, <<"=">>) /\ Colour(shown) = <<>>
           ELSE IF FGt(FZero, d.v) THEN Colour(shown) = OKGREEN
           ELSE IF FGt(d.v, Frac(5, 100)) THEN Colour(shown) = FAIL
           ELSE Colour(shown) = WARNING

\* no entry of the group is a list
AllScalar(g) == \A k \in DOMAIN g.v : g.v[k].t # "list"

\* C37: a group none of whose entries is a list has num_of_runs_in_group
\* = -1, and the walk calls begin_group and end_group for it but no
\* begin_row and no column or value hook in between.
C37_ScalarGroupSkipped ==
    /\ tpc \notin {"new", "__init__ raised IndexError"} =>
         \A i \in 1..Len(table \o footer) :
           AllScalar((table \o footer)[i]) => num_of_runs_in_group[i] = -1
    /\ (InGroups /\ tpc \in {"begin_group", "end_group"}
           /\ AllScalar(section_groups[loc.n_group + 1])) =>
         /\ loc.num_of_runs_in_group = -1
         /\ tpc = "end_group" => output[Len(output) - 1] = "begin_group"

C37_Witness ==
    /\ tpc = "end_group"
    /\ loc.loc_in_table = LOC_IN_TABLE_BODY
    /\ section_groups[loc.n_group + 1] = PyDict([key \in {"id"} |-> PyStr(<<"B">>)])
    /\ loc.num_of_runs_in_group = -1
    /\ output[Len(output) - 1] = "begin_group"

\* the hook called last, end_table included
LastHook == IF tpc = "returned" THEN "end_table" ELSE tpc

\* a hook has just been called with loc
HookCalled == output # <<>> /\ LastHook = output[Len(output)]

\* the section the walk is in, by the hooks called so far
SectionEntered ==
    IF "end_table" \in Elements(output) \/ LastHook = "begin_table" THEN "None"
    ELSE IF "begin_footer" \in Elements(output) THEN LOC_IN_TABLE_FOOTER
    ELSE IF "begin_body" \in Elements(output) THEN LOC_IN_TABLE_BODY
    ELSE LOC_IN_TABLE_HDR

\* C32: the Location at each hook call: loc_in_table is null at begin_table
\* and end_table, HDR from begin_header through end_header, BODY from
\* begin_body through end_body and FOOTER from begin_footer through
\* end_footer; loc_in_cell is VALUE at the three value hooks, DELTA at the
\* three delta hooks and null at every other hook; at begin_row and end_row
\* n_col is -1 and col_name and value are null; at begin_group and
\* end_group n_run is -1.
C32_LocationState ==
    HookCalled =>
      /\ loc.loc_in_table = SectionEntered
      /\ loc.loc_in_cell =
           (IF LastHook \in {"begin_value", "process_value", "end_value"}
            THEN LOC_IN_CELL_VALUE
            ELSE IF LastHook \in {"begin_delta", "process_delta", "end_delta"}
            THEN LOC_IN_CELL_DELTA
            ELSE "None")
      /\ LastHook \in {"begin_row", "end_row"} =>
           loc.n_col = -1 /\ loc.col_name = "None" /\ loc.value = None
      /\ LastHook \in {"begin_group", "end_group"} => loc.n_run = -1

C32_Witness ==
    /\ HookCalled
    /\ tpc = "begin_col"
    /\ loc.loc_in_table = LOC_IN_TABLE_FOOTER
    /\ loc.n_col = 1
    /\ loc.n_run = 1
    /\ loc.loc_in_cell = "None"
    /\ "end_delta" \in Elements(output)

----------------------------------------------------------------------------
(* Properties of the HTML sheet (SpecHTML) *)

CellHooks == {"begin_value", "process_value", "end_value",
              "begin_delta", "process_delta", "end_delta"}

\* a cell hook of the HTML visitor has just returned inside a group
AtHTMLCell == fcls = "HTMLSheetFormatter" /\ InGroups /\ tpc \in CellHooks

\* the entry of the current column in the current group is a scalar
ScalarEntry ==
    /\ loc.col_name \in DOMAIN section_groups[loc.n_group + 1].v
    /\ section_groups[loc.n_group + 1].v[loc.col_name].t # "list"

\* C21: in a group with N > 1 run rows, the value cell of a column whose
\* entry is a scalar is emitted on run row 0 with a row-span of N, and on
\* run rows 1..N-1 begin_value, process_value, end_value, begin_delta,
\* process_delta and end_delta all return null for that column.
C21_RowCollapsing ==
    (AtHTMLCell /\ ScalarEntry /\ loc.num_of_runs_in_group > 1) =>
       IF loc.n_run = 0
       THEN /\ tpc = "begin_value" =>
                  /\ returned # None
                  /\ returned.v.attributes.rowspan = loc.num_of_runs_in_group
            /\ tpc \in {"process_value", "end_value"} => returned # None
       ELSE returned = None

C21_Witness ==
    /\ AtHTMLCell /\ ScalarEntry
    /\ tpc = "end_delta"
    /\ loc.loc_in_table = LOC_IN_TABLE_BODY
    /\ loc.num_of_runs_in_group = 2
    /\ loc.n_run = 1
    /\ loc.col_name = "id"
    /\ returned = None

DeltaClasses == {"danger", "warning", "info", "success"}

OpenTags ==
    CASE LastHook \in {"begin_table", "end_header", "begin_body", "end_body", "end_footer"} -> 1
      [] LastHook \in {"begin_header", "begin_footer", "begin_group", "end_row"} -> 2
      [] LastHook = "end_group" -> IF loc.loc_in_table = LOC_IN_TABLE_BODY THEN 1 ELSE 2
      [] LastHook \in {"begin_row", "begin_col", "end_value", "end_delta", "end_col"} -> 3
      [] LastHook \in {"begin_value", "begin_delta"} -> IF returned = None THEN 3 ELSE 4
      [] LastHook \in {"process_value", "process_delta"} -> indent
      [] LastHook = "end_table" -> 0

\* C38: in the HTML visitor the indent counter mirrors the nesting depth
\* of the emitted tags: it is never negative during a walk, every opening
\* tag is matched by the closing tag of the same cell, row, group or
\* section (a suppressed begin_value or begin_delta by a suppressed
\* end_value or end_delta), and the counter is back to 0 after end_table.
C38_IndentDepth ==
    fcls = "HTMLSheetFormatter" =>
      /\ indent >= 0
      /\ HookCalled => indent = OpenTags
      /\ HookCalled /\ LastHook \in {"process_value", "process_delta"} => indent \in {3, 4}
      /\ tpc = "returned" => indent = 0

C38_Witness ==
    /\ AtHTMLCell /\ ScalarEntry
    /\ tpc = "end_value"
    /\ loc.n_run = 1
    /\ loc.num_of_runs_in_group = 2
    /\ returned = None
    /\ indent = 3

----------------------------------------------------------------------------
(* Properties of HTMLSheetFormatter.run (SpecPage) *)

\* C39: run() on a formatter constructed with the default, empty list of run
\* labels completes without raising and returns the page with the "n/a"
\* placeholder in place of the run list
C39_EmptyRunNames ==
    (run_names = <<>> /\ ppc \in {"returned", "AttributeError"})
        => /\ ppc = "returned"
           /\ page.v.run_names = run_names_placeholder

====
